---- MODULE Spec2Model ----
(***************************************************************************)
(* Contact discovery and enrichment pipeline of MyMedia-scraper:           *)
(*   app.py                          the orchestrator (thread pool, cache  *)
(*                                   short-circuit, per-item isolation)    *)
(*   cache.py                        the sqlite-backed TTL cache           *)
(*   enrichment/contact_enricher.py  enrich_business and response parsing  *)
(*   scrapers/website_scraper.py     tiered URL discovery and the crawl    *)
(*                                                                         *)
(* Nine specifications share the module:                                   *)
(*   Spec          the orchestrator run of one batch, with the cache       *)
(*   SpecPool      the same run on a batch of MAX_WORKERS + 1 businesses   *)
(*   SpecFair      the same run under fair scheduling of its threads       *)
(*   SpecCache     the cache API exercised on its own                      *)
(*   SpecDiscover  _discover_urls with its three tiers and the crawl loop  *)
(*   SpecExtract   enrich_business on one business, with the oracle reply  *)
(*   SpecPages     fetch_contact_pages: page selection and page fetches    *)
(*   SpecBrowser   the Playwright session of one WebsiteScraper            *)
(*   SpecSteps     enrich_business statement by statement: oracle calls,   *)
(*                 the delay and the prompt text                           *)
(* Each leaves the variables of the others untouched.                      *)
(***************************************************************************)
EXTENDS Integers, Sequences, FiniteSets, TLC

VARIABLES
    \* ---- cache.py: the table `cache` and the wall clock
    cache,        \* key -> [value, created_at]; DOMAIN = keys that have a row
    now,          \* time.time()
    ticks,        \* number of clock steps taken (bounds the clock)
    faults,       \* number of storage-layer errors so far (bounds them)
    \* ---- app.py: one enrichment run
    input,        \* the batch as the directory search returned it (never written)
    businesses,   \* the Business objects of the batch (enrich_business writes them)
    pc,           \* per index: position of the task _enrich_worker((idx, biz))
    ret,          \* per index: what the task returned, <<>> while it has not
    enriched,     \* the slot array `enriched`, <<>> for None
    done_count,   \* done_count of the collection loop
    main,         \* position of the main thread
    hist,         \* per index: what the task did (lookup outcome, steps run)
    \* ---- SpecCache: last two cache operations
    ops,
    \* ---- website_scraper.py: one _discover_urls call
    dpc, site, tiers, found_urls, seen, queue, results, fetched, limit,
    rdepth,       \* per entry of `results`: the depth it was taken from the queue with
    \* ---- contact_enricher.py: one enrich_business call
    xpc, xbiz, xenv, xout,
    \* ---- website_scraper.py: one fetch_contact_pages call after discovery
    fpc,            \* position in fetch_contact_pages
    fin,            \* its inputs: base_url, all_urls, the URL-filter oracle's reply
    relevant,       \* the selection: [by, urls], by = "oracle" or "keyword"
    urls_to_scrape, \* the list of pages to fetch
    scrapes,        \* per _scrape_url call so far: [url, static, renders, text]
    page_map,       \* the dict `results` of fetch_contact_pages: [label, text] in
                    \* insertion order, a text being [page, len]
    \* ---- website_scraper.py: the Playwright session of one WebsiteScraper
    tpc,            \* per task using the scraper: its position
    tcalls,         \* per task: render calls it has still to make
    _playwright,    \* self._playwright: None or the driver
    _browser,       \* self._browser: None or the browser
    drivers,        \* the Playwright drivers that are running
    browsers,       \* the browsers that are open
    started,        \* how many drivers were started so far
    bmain,          \* position of the main thread
    \* ---- contact_enricher.py: one enrich_business call, statement by statement
    epc,            \* position in enrich_business
    ein,            \* the outcomes of its I/O: the pages fetched, the discovery
    elog,           \* the oracle calls, delays and the return, in order
    eparts          \* the parts _combine_pages built: [label, len] each

vars == <<cache, now, ticks, faults, input, businesses, pc, ret, enriched, done_count,
          main, hist, ops, dpc, site, tiers, found_urls, seen, queue, results,
          fetched, limit, rdepth, xpc, xbiz, xenv, xout,
          fpc, fin, relevant, urls_to_scrape, scrapes, page_map,
          tpc, tcalls, _playwright, _browser, drivers, browsers, started, bmain,
          epc, ein, elog, eparts>>

cacheVars == <<cache, now, ticks, faults>>
orchVars  == <<input, businesses, pc, ret, enriched, done_count, main, hist>>
discVars  == <<dpc, site, tiers, found_urls, seen, queue, results, fetched, limit, rdepth>>
extVars   == <<xpc, xbiz, xenv, xout>>
pageVars  == <<fpc, fin, relevant, urls_to_scrape, scrapes, page_map>>
browVars  == <<tpc, tcalls, _playwright, _browser, drivers, browsers, started, bmain>>
stepVars  == <<epc, ein, elog, eparts>>

(***************************************************************************)
(* Optional values: None is the empty tuple, a present value v is <<v>>.   *)
(***************************************************************************)
None == <<>>
Some(v) == <<v>>
IsNone(o) == o = <<>>
The(o) == o[1]

Min(a, b) == IF a < b THEN a ELSE b

\* Python's s[:n] on a list
Take(s, n) == SubSeq(s, 1, Min(n, Len(s)))

(***************************************************************************)
(* models.py                                                               *)
(***************************************************************************)
ContactPerson(name, title, email, email_source, phone) ==
    [name |-> name, title |-> title, email |-> email,
     email_source |-> email_source, phone |-> phone]

Business(name, address, phone, website) ==
    [name |-> name, category |-> "Zahnarzt", address |-> address, city |-> "Bozen",
     phone |-> phone, website |-> website, company_emails |-> <<>>,
     google_rating |-> None, review_count |-> None, contact_persons |-> <<>>]

\* The fields of a Business other than contact_persons.
NonContact(b) ==
    <<b.name, b.category, b.address, b.city, b.phone, b.website,
      b.company_emails, b.google_rating, b.review_count>>

(***************************************************************************)
(* cache.py                                                                *)
(***************************************************************************)
_TTL_SECONDS == 7 * 24 * 3600

RECURSIVE JoinPipe(_)
\* "|".join(parts)
JoinPipe(parts) ==
    IF Len(parts) = 0 THEN ""
    ELSE IF Len(parts) = 1 THEN parts[1]
    ELSE parts[1] \o "|" \o JoinPipe(Tail(parts))

\* hashlib.sha256(raw.encode()).hexdigest(): two different raw strings are taken
\* to have different digests, so the digest is written as the raw string itself.
sha256(raw) == raw

_cache_key(parts) == sha256(JoinPipe(parts))

\* json.dumps(business.model_dump()) and Business(**json.loads(value)): the
\* serialised form is the tuple of the field values in declaration order.
ContactToJson(c) == <<c.name, c.title, c.email, c.email_source, c.phone>>
ContactFromJson(j) == ContactPerson(j[1], j[2], j[3], j[4], j[5])
BusinessToJson(b) ==
    <<b.name, b.category, b.address, b.city, b.phone, b.website, b.company_emails,
      b.google_rating, b.review_count,
      [k \in 1..Len(b.contact_persons) |-> ContactToJson(b.contact_persons[k])]>>
BusinessFromJson(j) ==
    [name |-> j[1], category |-> j[2], address |-> j[3], city |-> j[4],
     phone |-> j[5], website |-> j[6], company_emails |-> j[7],
     google_rating |-> j[8], review_count |-> j[9],
     contact_persons |-> [k \in 1..Len(j[10]) |-> ContactFromJson(j[10][k])]]
ListToJson(bs) == [k \in 1..Len(bs) |-> BusinessToJson(bs[k])]
ListFromJson(j) == [k \in 1..Len(j) |-> BusinessFromJson(j[k])]

\* SELECT value, created_at FROM cache WHERE key = ?  (fetchone)
SelectRow(c, key) == IF key \in DOMAIN c THEN Some(c[key]) ELSE None

\* INSERT OR REPLACE INTO cache (key, value, created_at) VALUES (?, ?, ?); commit
InsertOrReplace(c, key, value, t) ==
    [k \in DOMAIN c \cup {key} |->
        IF k = key THEN [value |-> value, created_at |-> t] ELSE c[k]]

\* Variants of the read path: one that finds every row expired, one that
\* expires a row at exactly the TTL, one without the except clause.
CacheRead_AlwaysExpired(c, t, key, fault) == [raised |-> FALSE, value |-> None]
CacheRead_ExpiresAtTtl(c, t, key, fault) ==
    IF fault THEN [raised |-> FALSE, value |-> None]
    ELSE LET row == SelectRow(c, key) IN
         IF IsNone(row) THEN [raised |-> FALSE, value |-> None]
         ELSE IF t - The(row).created_at >= _TTL_SECONDS
              THEN [raised |-> FALSE, value |-> None]
              ELSE [raised |-> FALSE, value |-> Some(The(row).value)]
CacheRead_NoExcept(c, t, key, fault) ==
    IF fault THEN [raised |-> TRUE, value |-> None]
    ELSE LET row == SelectRow(c, key) IN
         IF IsNone(row) THEN [raised |-> FALSE, value |-> None]
         ELSE IF t - The(row).created_at > _TTL_SECONDS
              THEN [raised |-> FALSE, value |-> None]
              ELSE [raised |-> FALSE, value |-> Some(The(row).value)]

\* The read path shared by both getters. `fault` is a storage-layer error
\* (sqlite3 raising in connect/execute): the except clause returns None.
\* The result is [raised, value]: raised says an exception left the function.
CacheRead(c, t, key, fault) ==
    IF fault THEN [raised |-> FALSE, value |-> None]
    ELSE LET row == SelectRow(c, key) IN
         IF IsNone(row) THEN [raised |-> FALSE, value |-> None]
         ELSE IF t - The(row).created_at > _TTL_SECONDS
              THEN [raised |-> FALSE, value |-> None]
              ELSE [raised |-> FALSE, value |-> Some(The(row).value)]

\* A write path that stores nothing.
CacheWrite_Drops(c, t, key, value, fault) == [raised |-> FALSE, cache |-> c]

\* The write path shared by both setters: [raised, cache]. A storage-layer
\* error before the commit leaves the table as it was and is swallowed.
CacheWrite(c, t, key, value, fault) ==
    IF fault THEN [raised |-> FALSE, cache |-> c]
    ELSE [raised |-> FALSE, cache |-> InsertOrReplace(c, key, value, t)]

EnrichmentKey(business_name, website) ==
    _cache_key(<<"enrichment", business_name, website>>)

OutscraperKey(business_type, city, country, lim) ==
    _cache_key(<<"outscraper", business_type, city, country, ToString(lim)>>)

get_cached_enrichment(c, t, business_name, website, fault) ==
    LET r == CacheRead(c, t, EnrichmentKey(business_name, website), fault) IN
    [raised |-> r.raised,
     value  |-> IF IsNone(r.value) THEN None ELSE Some(BusinessFromJson(The(r.value)))]

set_cached_enrichment(c, t, business, fault) ==
    CacheWrite(c, t, EnrichmentKey(business.name, business.website),
               BusinessToJson(business), fault)

get_cached_businesses(c, t, business_type, city, country, lim, fault) ==
    LET r == CacheRead(c, t, OutscraperKey(business_type, city, country, lim), fault) IN
    [raised |-> r.raised,
     value  |-> IF IsNone(r.value) THEN None ELSE Some(ListFromJson(The(r.value)))]

set_cached_businesses(c, t, business_type, city, country, lim, bs, fault) ==
    CacheWrite(c, t, OutscraperKey(business_type, city, country, lim),
               ListToJson(bs), fault)

(***************************************************************************)
(* enrichment/contact_enricher.py                                          *)
(*                                                                         *)
(* Strings that the code inspects character by character (e-mail           *)
(* addresses) are sequences of one-character strings.                      *)
(***************************************************************************)
Letters == {"a", "b", "c", "d", "e", "i", "n", "p", "t", "x"}
Digits == {"1", "2"}
Whitespace == {" "}
LocalChars == Letters \cup Digits \cup {".", "_", "%", "+", "-"}
DomainChars == Letters \cup Digits \cup {".", "-"}

RECURSIVE LStrip(_)
LStrip(s) == IF Len(s) > 0 /\ s[1] \in Whitespace THEN LStrip(Tail(s)) ELSE s
RECURSIVE RStrip(_)
RStrip(s) ==
    IF Len(s) > 0 /\ s[Len(s)] \in Whitespace THEN RStrip(SubSeq(s, 1, Len(s) - 1)) ELSE s
\* str.strip()
Strip(s) == LStrip(RStrip(s))

\* _EMAIL_RE.match(s): ^[a-zA-Z0-9._%+\-]+@[a-zA-Z0-9.\-]+\.[a-zA-Z]{2,}$
\* ($ also matches before one trailing newline)
EmailReMatch(s) ==
    LET n == IF Len(s) > 0 /\ s[Len(s)] = "\n" THEN Len(s) - 1 ELSE Len(s) IN
    \E i \in 2..n : \E j \in (i + 2)..n :
        /\ s[i] = "@"
        /\ \A k \in 1..(i - 1) : s[k] \in LocalChars
        /\ \A k \in (i + 1)..(j - 1) : s[k] \in DomainChars
        /\ s[j] = "."
        /\ n - j >= 2
        /\ \A k \in (j + 1)..n : s[k] \in Letters

_is_valid_email(email) == EmailReMatch(Strip(email))

\* JSON values as json.loads returns them: a string, null, a number, or a key
\* that is missing from the object. A string is held in `s`, except an e-mail
\* address, which is held character by character in `cs`.
JStr(s) == [t |-> "str", s |-> s, cs |-> <<>>]
JChars(cs) == [t |-> "str", s |-> "", cs |-> cs]
JNull == [t |-> "null", s |-> "", cs |-> <<>>]
JNum == [t |-> "num", s |-> "", cs |-> <<>>]
JAbsent == [t |-> "absent", s |-> "", cs |-> <<>>]

\* c.get(key, ""): the default only replaces a missing key.
GetOr(v) == IF v.t = "absent" THEN JStr("") ELSE v
\* Python truthiness of c.get(key): None, a missing key and "" are falsy;
\* the model's numbers are non-zero.
Truthy(v) == \/ v.t = "num"
             \/ (v.t = "str" /\ (v.s # "" \/ v.cs # <<>>))

\* One element of the "contacts" array: a dict with the four keys, or
\* something that is no dict (a string, a list).
Entry(name, title, email, phone) ==
    [isdict |-> TRUE, name |-> name, title |-> title, email |-> email, phone |-> phone]
NoDict == [isdict |-> FALSE, name |-> JAbsent, title |-> JAbsent,
           email |-> JAbsent, phone |-> JAbsent]

\* Lines 179-193 for one element c: "skip" (no name), "raise" (AttributeError
\* of c.get on a non-dict or of email.strip() on a non-string, pydantic's
\* ValidationError for a field that is no string), or the ContactPerson.
NoContact == ContactPerson("", "", <<>>, "", "")
ParseEntry(c) ==
    IF ~c.isdict THEN [kind |-> "raise", contact |-> NoContact]
    ELSE IF ~Truthy(c.name) THEN [kind |-> "skip", contact |-> NoContact]
    ELSE LET email0 == GetOr(c.email) IN
         IF Truthy(email0) /\ email0.t # "str" THEN [kind |-> "raise", contact |-> NoContact]
         ELSE LET email == IF Truthy(email0) /\ ~_is_valid_email(email0.cs)
                           THEN JStr("") ELSE email0
                  title == GetOr(c.title)
                  phone == GetOr(c.phone)
              IN IF c.name.t # "str" \/ title.t # "str" \/ email.t # "str" \/ phone.t # "str"
                 THEN [kind |-> "raise", contact |-> NoContact]
                 ELSE [kind |-> "contact",
                       contact |-> ContactPerson(c.name.s, title.s, email.cs,
                                      IF Truthy(email) THEN "website" ELSE "",
                                      phone.s)]

RECURSIVE ParseEntries(_)
\* The loop of lines 177-194: [raised, contacts].
ParseEntries(items) ==
    IF Len(items) = 0 THEN [raised |-> FALSE, contacts |-> <<>>]
    ELSE LET first == ParseEntry(items[1]) IN
         IF first.kind = "raise" THEN [raised |-> TRUE, contacts |-> <<>>]
         ELSE LET rest == ParseEntries(Tail(items)) IN
              IF rest.raised THEN rest
              ELSE IF first.kind = "skip" THEN rest
              ELSE [raised |-> FALSE, contacts |-> <<first.contact>> \o rest.contacts]

\* The text of an oracle reply: what it holds (a JSON object, a JSON array,
\* prose) and whether it is wrapped in a ``` fence: "json" for the tag json,
\* "plain" for no tag, "tagged" for another tag (JSON, javascript, ...).
\* For an object, `contacts` says whether the key is missing, null or a list.
ReplyText(fence, shape, contacts, items) ==
    [fence |-> fence, shape |-> shape, contacts |-> contacts, items |-> items]

\* Lines 159-169: the first fenced part that starts with "{", after the
\* prefix "json" is cut from it, replaces the text. A part that starts with
\* another tag starts neither with "json" nor with "{".
Unfence(text) ==
    IF text.fence \in {"json", "plain"} /\ text.shape = "object"
    THEN [text EXCEPT !.fence = "none"]
    ELSE text

\* json.loads(text): a JSONDecodeError unless the text is bare JSON.
JsonDecodes(text) == text.fence = "none" /\ text.shape \in {"object", "array"}

\* _parse_llm_response: [raised, contacts]
_parse_llm_response(response_text) ==
    LET text == Unfence(response_text) IN
    IF ~JsonDecodes(text) THEN [raised |-> FALSE, contacts |-> <<>>]
    ELSE IF text.shape = "array" THEN [raised |-> TRUE, contacts |-> <<>>]
    ELSE IF text.contacts = "missing" THEN [raised |-> FALSE, contacts |-> <<>>]
    ELSE IF text.contacts = "null" THEN [raised |-> TRUE, contacts |-> <<>>]
    ELSE ParseEntries(text.items)

\* An oracle call: it errs, returns no content, or returns a text.
OracleError == [status |-> "error", content |-> None]
OracleEmpty == [status |-> "ok", content |-> None]
OracleText(text) == [status |-> "ok", content |-> Some(text)]

\* _extract_contacts: the contact list (every exception of the call and of the
\* parsing is caught by the except clause of line 153).
_extract_contacts(reply) ==
    IF reply.status = "error" THEN <<>>
    ELSE IF IsNone(reply.content) THEN <<>>
    ELSE LET r == _parse_llm_response(The(reply.content)) IN
         IF r.raised THEN <<>> ELSE r.contacts

\* enrich_business on `business` with the outcome `env` of its I/O:
\* env.pages is what fetch_contact_pages did ("raise", "empty", "some"),
\* env.reply the oracle's answer. [raised, business]: the object is written
\* in place, so `business` of the result is also the caller's object.
enrich_business(business, env) ==
    IF business.website = "" THEN [raised |-> FALSE, business |-> business]
    ELSE IF env.pages = "raise" THEN [raised |-> TRUE, business |-> business]
    ELSE IF env.pages = "empty" THEN [raised |-> FALSE, business |-> business]
    ELSE LET contacts == _extract_contacts(env.reply) IN
         [raised |-> FALSE,
          business |-> IF contacts # <<>>
                       THEN [business EXCEPT !.contact_persons = Take(contacts, 2)]
                       ELSE business]

(***************************************************************************)
(* app.py, stage 2: the enrichment run                                     *)
(***************************************************************************)
MAX_WORKERS == 4

\* Bounds of the orchestrator model
MaxBatch == 3
\* Bounds of the environment: clock steps and storage-layer errors
MaxTicks == 2
MaxFaults == 2

ClockStep == _TTL_SECONDS \div 2
\* The clock at the start of a run; rows of earlier runs are older.
StartTime == 3 * ClockStep

\* A storage-layer error is possible while the bound allows one more.
Faults == IF faults < MaxFaults THEN {FALSE, TRUE} ELSE {FALSE}
Count(fault) == IF fault THEN 1 ELSE 0

\* The directory search's businesses (OutscraperService._parse_result: a
\* non-empty name, no contact persons). The first three have the same
\* "|"-joined (name, website); the second and third have the same name and
\* website and differ in the address; the fourth has no website.
Roster ==
    << Business("Studio|Rossi", "Via Roma 1", "+39 0471 1", "rossi.it"),
       Business("Studio", "Via Dante 2", "+39 0471 2", "Rossi|rossi.it"),
       Business("Studio", "Via Goethe 3", "+39 0471 3", "Rossi|rossi.it"),
       Business("Praxis Weiss", "Lauben 4", "+39 0471 4", ""),
       Business("Dr. Gruber", "Museumstr. 5", "+39 0471 5", "gruber.it") >>

\* enumerate(businesses): indices from 0
Batch(n) == [i \in 0..(n - 1) |-> Roster[(i % Len(Roster)) + 1]]

Anna == ContactPerson("Anna Rossi", "Dr.", <<"a", "@", "b", ".", "i", "t">>, "website", "+39 1")
Bruno == ContactPerson("Bruno Bianchi", "", <<>>, "", "")

\* What an earlier run left in the table: nothing, or the enriched first
\* business, written 1.5 TTL, one TTL or half a TTL ago.
EarlierRow(t) ==
    set_cached_enrichment(<<>>, t,
        [Roster[1] EXCEPT !.contact_persons = <<Anna>>], FALSE).cache
InitCaches == {<<>>} \cup {EarlierRow(k * ClockStep) : k \in 0..2}

\* The I/O outcomes of one enrich_business call that the run draws from.
ValidEntry(name) == Entry(JStr(name), JStr("Dr."), JAbsent, JNull)
ThreeContacts ==
    OracleText(ReplyText("none", "object", "list",
        << Entry(JStr("Anna Rossi"), JStr("Dr."), JChars(<<"a", "@", "b", ".", "i", "t">>), JStr("+39 1")),
           Entry(JStr("Bruno Bianchi"), JAbsent, JAbsent, JAbsent),
           Entry(JStr("Carla Conti"), JAbsent, JAbsent, JAbsent) >>))
RunEnvs ==
    { [pages |-> "raise", reply |-> OracleError],
      [pages |-> "empty", reply |-> OracleError],
      [pages |-> "some",  reply |-> ThreeContacts] }

Indices == DOMAIN input

\* A pool whose threads are not given back when a task returns.
Running_KeepsThread(p) == {i \in DOMAIN p : p[i] \in {"enriching", "done", "collected"}}

\* A task occupies a pool thread from its start to its return.
Running(p) == {i \in DOMAIN p : p[i] = "enriching"}

\* enrichers[idx % MAX_WORKERS]
EnricherOf(idx) == idx % MAX_WORKERS

\* A worker without the except clause: the exception leaves the worker.
ReturnOnError_Reraise(biz) == [exc |-> TRUE, via |-> "raise", biz |-> biz]

\* What _enrich_worker returns: [exc, via, biz]. exc says that an exception
\* left the worker instead (future.result() re-raises it in the main thread);
\* via names the return statement taken.
ReturnCached(cached) == [exc |-> FALSE, via |-> "cache", biz |-> cached]
ReturnResult(result) == [exc |-> FALSE, via |-> "result", biz |-> result]
ReturnOnError(biz) == [exc |-> FALSE, via |-> "except", biz |-> biz]
Propagate(biz) == [exc |-> TRUE, via |-> "raise", biz |-> biz]

\* The state of the row of (name, website) as a read at time t finds it.
RowState(c, t, business) ==
    LET row == SelectRow(c, EnrichmentKey(business.name, business.website)) IN
    IF IsNone(row) THEN "absent"
    ELSE IF t - The(row).created_at < _TTL_SECONDS THEN "young"
    ELSE IF t - The(row).created_at = _TTL_SECONDS THEN "at-ttl"
    ELSE "expired"

\* What the task did: the statements it ran ("get", "enrich", "set"), the
\* state and value of the row its lookup met, whether the storage layer failed
\* in its read and in its write, and whether enrich_business raised.
NoHist == [steps |-> {}, row |-> "unread", value |-> None,
           rfault |-> FALSE, wfault |-> FALSE, raised |-> FALSE]

InitOrch(n) ==
    /\ input = Batch(n)
    /\ businesses = Batch(n)
    /\ pc = [i \in 0..(n - 1) |-> "queued"]
    /\ ret = [i \in 0..(n - 1) |-> None]
    /\ enriched = [i \in 0..(n - 1) |-> None]
    /\ done_count = 0
    /\ main = "collecting"
    /\ hist = [i \in 0..(n - 1) |-> NoHist]

IdleOrch ==
    /\ input = <<>> /\ businesses = <<>> /\ pc = <<>> /\ ret = <<>>
    /\ enriched = <<>> /\ done_count = 0 /\ main = "idle" /\ hist = <<>>
IdleCacheHist == ops = <<>>
IdleDiscover ==
    /\ dpc = "idle" /\ site = <<>> /\ tiers = <<>> /\ found_urls = <<>>
    /\ seen = {} /\ queue = <<>> /\ results = <<>> /\ fetched = <<>> /\ limit = 0
    /\ rdepth = <<>>
IdleExtract == xpc = "idle" /\ xbiz = <<>> /\ xenv = <<>> /\ xout = <<>>
IdlePages ==
    /\ fpc = "idle" /\ fin = <<>> /\ relevant = <<>>
    /\ urls_to_scrape = <<>> /\ scrapes = <<>> /\ page_map = <<>>
IdleSteps == epc = "idle" /\ ein = <<>> /\ elog = <<>> /\ eparts = <<>>
IdleBrowser ==
    /\ tpc = <<>> /\ tcalls = <<>> /\ _playwright = <<>> /\ _browser = <<>>
    /\ drivers = {} /\ browsers = {} /\ started = 0 /\ bmain = "idle"

Init ==
    /\ \E n \in 1..MaxBatch : InitOrch(n)
    /\ cache \in InitCaches
    /\ now = StartTime
    /\ ticks = 0
    /\ faults = 0
    /\ IdleCacheHist /\ IdleDiscover /\ IdleExtract
    /\ IdlePages /\ IdleBrowser /\ IdleSteps

\* A pool thread takes the next task of the work queue (submission order) and
\* runs the worker up to the cache lookup of lines 103-107.
Lookup(i, fault) ==
    /\ main = "collecting"
    /\ pc[i] = "queued"
    /\ \A j \in Indices : j < i => pc[j] # "queued"
    /\ Cardinality(Running(pc)) < MAX_WORKERS
    /\ LET biz == businesses[i]
           r == get_cached_enrichment(cache, now, biz.name, biz.website, fault)
           row == SelectRow(cache, EnrichmentKey(biz.name, biz.website))
           h == [hist[i] EXCEPT !.steps = {"get"},
                                !.row = RowState(cache, now, biz),
                                !.value = IF IsNone(row) THEN None
                                          ELSE Some(The(row).value),
                                !.rfault = fault]
       IN /\ hist' = [hist EXCEPT ![i] = h]
          /\ IF r.raised
             THEN /\ pc' = [pc EXCEPT ![i] = "done"]
                  /\ ret' = [ret EXCEPT ![i] = Some(Propagate(biz))]
             ELSE IF ~IsNone(r.value)
             THEN /\ pc' = [pc EXCEPT ![i] = "done"]
                  /\ ret' = [ret EXCEPT ![i] = Some(ReturnCached(The(r.value)))]
             ELSE /\ pc' = [pc EXCEPT ![i] = "enriching"]
                  /\ ret' = ret
    /\ faults' = faults + Count(fault)
    /\ UNCHANGED <<cache, now, ticks, input, businesses, enriched, done_count, main>>
    /\ UNCHANGED <<ops, discVars, extVars, pageVars, browVars, stepVars>>

\* Lines 108-114: enrich_business on enrichers[idx % MAX_WORKERS], then
\* set_cached_enrichment(result), then the return. The call works on the
\* task's own Business and on I/O, so its only step on shared state is the
\* write of the row, and the task is taken to be inside enrich_business
\* while pc is "enriching".
EnrichAndStore(i, env, fault) ==
    /\ pc[i] = "enriching"
    /\ LET r == enrich_business(businesses[i], env) IN
       /\ businesses' = [businesses EXCEPT ![i] = r.business]
       /\ IF r.raised
          THEN /\ ret' = [ret EXCEPT ![i] = Some(ReturnOnError(r.business))]
               /\ fault = FALSE
               /\ hist' = [hist EXCEPT ![i].steps = @ \cup {"enrich"},
                                       ![i].raised = TRUE]
               /\ UNCHANGED cache
          ELSE LET w == set_cached_enrichment(cache, now, r.business, fault) IN
               /\ cache' = w.cache
               /\ hist' = [hist EXCEPT ![i].steps = @ \cup {"enrich", "set"},
                                       ![i].wfault = fault]
               /\ ret' = [ret EXCEPT ![i] =
                            Some(IF w.raised THEN ReturnOnError(r.business)
                                             ELSE ReturnResult(r.business))]
    /\ pc' = [pc EXCEPT ![i] = "done"]
    /\ faults' = faults + Count(fault)
    /\ UNCHANGED <<now, ticks, input, enriched, done_count, main>>
    /\ UNCHANGED <<ops, discVars, extVars, pageVars, browVars, stepVars>>

\* Lines 124-127: as_completed yields a finished future; future.result()
\* re-raises what the worker raised, which ends the run.
Collect(i) ==
    /\ main = "collecting"
    /\ pc[i] = "done"
    /\ IF The(ret[i]).exc
       THEN /\ main' = "crashed"
            /\ UNCHANGED <<pc, enriched, done_count>>
       ELSE /\ enriched' = [enriched EXCEPT ![i] = Some(The(ret[i]).biz)]
            /\ done_count' = done_count + 1
            /\ pc' = [pc EXCEPT ![i] = "collected"]
            /\ main' = main
    /\ UNCHANGED <<cacheVars, input, businesses, ret, hist>>
    /\ UNCHANGED <<ops, discVars, extVars, pageVars, browVars, stepVars>>

\* Lines 131-134: the pool is drained, the enrichers are closed and
\* `businesses = enriched`.
Finish ==
    /\ main = "collecting"
    /\ \A i \in Indices : pc[i] = "collected"
    /\ main' = "finished"
    /\ UNCHANGED <<cacheVars, input, businesses, pc, ret, enriched, done_count, hist>>
    /\ UNCHANGED <<ops, discVars, extVars, pageVars, browVars, stepVars>>

\* time.time() advances.
Tick ==
    /\ ticks < MaxTicks
    /\ now' = now + ClockStep
    /\ ticks' = ticks + 1
    /\ UNCHANGED <<cache, faults>>

Next ==
    \/ \E i \in Indices, fault \in Faults : Lookup(i, fault)
    \/ \E i \in Indices, env \in RunEnvs, fault \in Faults : EnrichAndStore(i, env, fault)
    \/ \E i \in Indices : Collect(i)
    \/ Finish

Spec == Init /\ [][Next]_vars

\* The same run on a batch one larger than the pool, with an empty table and
\* a storage layer that does not fail.
InitPool ==
    /\ InitOrch(MAX_WORKERS + 1)
    /\ cache = <<>>
    /\ now = StartTime
    /\ ticks = 0
    /\ faults = MaxFaults
    /\ IdleCacheHist /\ IdleDiscover /\ IdleExtract
    /\ IdlePages /\ IdleBrowser /\ IdleSteps

SpecPool == InitPool /\ [][Next]_vars

\* The steps of the threads: a pool thread takes a task, a task inside
\* enrich_business returns (the step EnrichAndStore takes, seen on pc), the
\* main thread collects or leaves the pool.
TaskStarts == \E i \in Indices, fault \in Faults : Lookup(i, fault)
TaskReturns == \E i \in Indices : pc[i] = "enriching" /\ pc' = [pc EXCEPT ![i] = "done"]
MainThread ==
    \/ \E i \in Indices : Collect(i)
    \/ Finish

\* A run on an empty table: one or two tasks with a storage layer that may
\* fail, or a batch one larger than the pool with one that does not.
InitFair ==
    /\ \E n \in {1, 2, MAX_WORKERS + 1} :
          /\ InitOrch(n)
          /\ faults = IF n > MAX_WORKERS THEN MaxFaults ELSE 0
    /\ cache = <<>>
    /\ now = StartTime
    /\ ticks = 0
    /\ IdleCacheHist /\ IdleDiscover /\ IdleExtract
    /\ IdlePages /\ IdleBrowser /\ IdleSteps

\* The run under fair scheduling: the pool threads and the main thread are
\* operating-system threads that keep being scheduled, and every call into
\* the network, the oracle and the storage layer returns, with a result or
\* with an error (EnrichAndStore is enabled whenever a task is enriching).
SpecFair ==
    /\ InitFair /\ [][Next]_vars
    /\ WF_vars(TaskStarts) /\ WF_pc(TaskReturns) /\ WF_vars(MainThread)

(***************************************************************************)
(* Claims on the enrichment run                                            *)
(***************************************************************************)
Returned(i) == ~IsNone(ret[i])

\* C1: when the run has ended, the output list has one entry per input
\* business and entry i has the name and the website of input business i,
\* whatever the completion order and whichever tasks failed.
C1_OutputMatchesInput ==
    main = "finished" =>
        /\ DOMAIN enriched = DOMAIN input
        /\ \A i \in Indices :
              /\ ~IsNone(enriched[i])
              /\ The(enriched[i]).name = input[i].name
              /\ The(enriched[i]).website = input[i].website

\* C2: a business whose pipeline raised is returned as its input record with
\* an empty contact list, no exception leaves a worker (the run never
\* crashes), and at the end every slot of the batch is filled.
C2_FailureIsolated ==
    /\ main # "crashed"
    /\ \A i \in Indices :
          (Returned(i) /\ hist[i].raised) =>
              /\ ~The(ret[i]).exc
              /\ The(ret[i]).biz = input[i]
              /\ The(ret[i]).biz.contact_persons = <<>>
    /\ main = "finished" =>
          \A i \in Indices :
              /\ ~IsNone(enriched[i])
              /\ hist[i].raised => The(enriched[i]) = input[i]

\* C2 witness: a finished run in which one pipeline raised and another
\* business was enriched with contacts.
C2_Witness ==
    /\ main = "finished"
    /\ \E i, j \in Indices :
          /\ hist[i].raised
          /\ ~hist[j].raised /\ "enrich" \in hist[j].steps
          /\ The(enriched[j]).contact_persons # <<>>

\* C3: no two tasks that are inside enrich_business at the same time use the
\* same ContactEnricher (and so the same WebsiteScraper and sessions).
C3_NoSharedFetcher ==
    \A i, j \in Indices :
        (i # j /\ pc[i] = "enriching" /\ pc[j] = "enriching")
            => EnricherOf(i) # EnricherOf(j)

\* C4 as stated: a task whose row is younger than the TTL at its lookup
\* returns the cached Business and runs neither the pipeline nor a cache write.
ServedFromCache(i) ==
    /\ hist[i].steps = {"get"}
    /\ pc[i] # "enriching"
    /\ Returned(i)
    /\ The(ret[i]).via = "cache"
    /\ The(ret[i]).biz = BusinessFromJson(The(hist[i].value))
C4_Original ==
    \A i \in Indices : hist[i].row = "young" => ServedFromCache(i)

\* C4 (amended): a task whose row is younger than the TTL at its lookup, and
\* whose read met no storage-layer error, returns the cached Business and runs
\* neither the pipeline nor a cache write.
C4_FreshHitShortCircuits ==
    \A i \in Indices :
        (hist[i].row = "young" /\ ~hist[i].rfault) => ServedFromCache(i)

\* C4 witness: a collected task that was served from a young row.
C4_Witness ==
    \E i \in Indices :
        /\ hist[i].row = "young" /\ ~hist[i].rfault
        /\ pc[i] = "collected"
        /\ The(enriched[i]).contact_persons # <<>>

\* C6: a storage-layer error in the read makes the lookup a miss (the task
\* goes on to the pipeline), one in the write leaves the returned result the
\* pipeline's result, and no exception reaches the main thread.
C6_StorageErrorsSwallowed ==
    /\ main # "crashed"
    /\ \A i \in Indices :
          /\ Returned(i) => ~The(ret[i]).exc
          /\ hist[i].rfault =>
                \/ pc[i] = "enriching"
                \/ "enrich" \in hist[i].steps
          /\ (hist[i].wfault /\ Returned(i)) =>
                /\ The(ret[i]).via = "result"
                /\ The(ret[i]).biz = businesses[i]

\* C6 witness: a finished run in which one task's read failed on a row that
\* would have been served, and one task's write failed.
C6_Witness ==
    /\ main = "finished"
    /\ \E i, j \in Indices :
          /\ hist[i].rfault /\ hist[i].row = "young"
          /\ hist[j].wfault
          /\ The(enriched[j]).contact_persons # <<>>

(***************************************************************************)
(* cache.py exercised on its own: any sequence of gets and sets of both    *)
(* kinds, storage-layer errors and clock steps. `ops` holds the last two   *)
(* operations: [op, key, at, fault, row, value, raised] with row the row   *)
(* of the key before the operation, value what was set or what was got.    *)
(***************************************************************************)
CachedValues == { [Roster[1] EXCEPT !.contact_persons = <<Anna, Bruno>>], Roster[2] }

Queries ==
    { [business_type |-> "Zahnarzt", city |-> "Bozen", country |-> "IT", limit |-> 20] }
CachedLists == { <<Roster[1]>>, <<Roster[4], Roster[5]>> }

Remember(op) == ops' = IF Len(ops) = 0 THEN <<op>> ELSE <<ops[Len(ops)], op>>

InitCache ==
    /\ cache \in InitCaches
    /\ now = StartTime
    /\ ticks = 0
    /\ faults = 0
    /\ ops = <<>>
    /\ IdleOrch /\ IdleDiscover /\ IdleExtract
    /\ IdlePages /\ IdleBrowser /\ IdleSteps

SetEnrichment(b, fault) ==
    LET key == EnrichmentKey(b.name, b.website)
        w == set_cached_enrichment(cache, now, b, fault)
    IN /\ cache' = w.cache
       /\ Remember([op |-> "set", key |-> key, at |-> now, fault |-> fault,
                    row |-> SelectRow(cache, key), value |-> Some(b),
                    raised |-> w.raised])
       /\ faults' = faults + Count(fault)
       /\ UNCHANGED <<now, ticks, orchVars, discVars, extVars, pageVars, browVars, stepVars>>

GetEnrichment(b, fault) ==
    LET key == EnrichmentKey(b.name, b.website)
        r == get_cached_enrichment(cache, now, b.name, b.website, fault)
    IN /\ Remember([op |-> "get", key |-> key, at |-> now, fault |-> fault,
                    row |-> SelectRow(cache, key), value |-> r.value,
                    raised |-> r.raised])
       /\ faults' = faults + Count(fault)
       /\ UNCHANGED <<cache, now, ticks, orchVars, discVars, extVars, pageVars, browVars, stepVars>>

SetBusinesses(q, bs, fault) ==
    LET key == OutscraperKey(q.business_type, q.city, q.country, q.limit)
        w == set_cached_businesses(cache, now, q.business_type, q.city,
                                   q.country, q.limit, bs, fault)
    IN /\ cache' = w.cache
       /\ Remember([op |-> "set", key |-> key, at |-> now, fault |-> fault,
                    row |-> SelectRow(cache, key), value |-> Some(bs),
                    raised |-> w.raised])
       /\ faults' = faults + Count(fault)
       /\ UNCHANGED <<now, ticks, orchVars, discVars, extVars, pageVars, browVars, stepVars>>

GetBusinesses(q, fault) ==
    LET key == OutscraperKey(q.business_type, q.city, q.country, q.limit)
        r == get_cached_businesses(cache, now, q.business_type, q.city,
                                   q.country, q.limit, fault)
    IN /\ Remember([op |-> "get", key |-> key, at |-> now, fault |-> fault,
                    row |-> SelectRow(cache, key), value |-> r.value,
                    raised |-> r.raised])
       /\ faults' = faults + Count(fault)
       /\ UNCHANGED <<cache, now, ticks, orchVars, discVars, extVars, pageVars, browVars, stepVars>>

TickCache == Tick /\ UNCHANGED <<ops, orchVars, discVars, extVars, pageVars, browVars, stepVars>>

NextCache ==
    \/ \E b \in CachedValues, fault \in Faults : SetEnrichment(b, fault)
    \/ \E b \in CachedValues, fault \in Faults : GetEnrichment(b, fault)
    \/ \E q \in Queries, bs \in CachedLists, fault \in Faults : SetBusinesses(q, bs, fault)
    \/ \E q \in Queries, fault \in Faults : GetBusinesses(q, fault)
    \/ TickCache

SpecCache == InitCache /\ [][NextCache]_vars

\* The value a row holds, as the getter of its kind returns it.
IsEnrichmentKey(key) == \E b \in CachedValues : key = EnrichmentKey(b.name, b.website)
Decoded(key, row) ==
    IF IsEnrichmentKey(key) THEN BusinessFromJson(row.value) ELSE ListFromJson(row.value)

LastOp == ops[Len(ops)]
GetAfterSet ==
    /\ Len(ops) = 2
    /\ ops[1].op = "set" /\ ops[2].op = "get"
    /\ ops[1].key = ops[2].key
    /\ ops[1].at = ops[2].at

\* The two halves of C5, for the operations that `clean` admits.
GetReturnsWhatWasSet(clean(_)) ==
    (GetAfterSet /\ clean(ops[1]) /\ clean(ops[2])) => ops[2].value = ops[1].value
GetFollowsTtl(clean(_)) ==
    (Len(ops) > 0 /\ LastOp.op = "get" /\ clean(LastOp)) =>
        IF IsNone(LastOp.row) THEN IsNone(LastOp.value)
        ELSE IF LastOp.at - The(LastOp.row).created_at > _TTL_SECONDS
             THEN IsNone(LastOp.value)
             ELSE LastOp.value = Some(Decoded(LastOp.key, The(LastOp.row)))

AnyOp(op) == TRUE
NoFault(op) == ~op.fault

\* What the getters return for a semantic tuple in cache c at time t.
GotEnrichment(c, t, b) == get_cached_enrichment(c, t, b.name, b.website, FALSE).value
GotBusinesses(c, t, q) ==
    get_cached_businesses(c, t, q.business_type, q.city, q.country, q.limit, FALSE).value

\* C29: a set for one semantic tuple (kind and parameters) leaves what a
\* get for every other tuple returns as it was.
C29_TuplesDoNotCollide ==
    [][/\ \A b \in CachedValues, other \in CachedValues, fault \in BOOLEAN :
             (SetEnrichment(b, fault) /\ <<b.name, b.website>> # <<other.name, other.website>>)
                 => GotEnrichment(cache', now', other) = GotEnrichment(cache, now, other)
       /\ \A b \in CachedValues, q \in Queries, fault \in BOOLEAN :
             SetEnrichment(b, fault)
                 => GotBusinesses(cache', now', q) = GotBusinesses(cache, now, q)
       /\ \A q \in Queries, bs \in CachedLists, b \in CachedValues, fault \in BOOLEAN :
             SetBusinesses(q, bs, fault)
                 => GotEnrichment(cache', now', b) = GotEnrichment(cache, now, b)]_vars

\* C5 as stated: for every key and value, a get right after a set returns
\* the value that was set; a get returns absent when the key has no row or
\* the row is older than the TTL, and the row's value when its age is at most
\* the TTL.
C5_Original == GetReturnsWhatWasSet(AnyOp) /\ GetFollowsTtl(AnyOp)

\* C5 (amended): the same, for operations that meet no storage-layer error.
C5_GetAfterSet == GetReturnsWhatWasSet(NoFault) /\ GetFollowsTtl(NoFault)

\* C5 witness: a set that replaced an expired row with a different value,
\* followed at once by a get of the key that returned the new value.
C5_Witness ==
    /\ GetAfterSet /\ NoFault(ops[1]) /\ NoFault(ops[2])
    /\ ~IsNone(ops[1].row)
    /\ ops[1].at - The(ops[1].row).created_at > _TTL_SECONDS
    /\ Decoded(ops[1].key, The(ops[1].row)) # The(ops[1].value)
    /\ ops[2].value = ops[1].value
    /\ cache[ops[1].key].created_at = ops[1].at

(***************************************************************************)
(* scrapers/website_scraper.py: URL discovery                              *)
(*                                                                         *)
(* A URL is [scheme, host, path, frag, asset]: host is the authority as    *)
(* written ("" when the string has none), frag says that a #fragment       *)
(* follows, asset that the path ends in one of the asset extensions.       *)
(* scheme "mailto" stands for the mailto: and tel: links, scheme "bad" for *)
(* an href that urljoin rejects with a ValueError (http://[bad).           *)
(***************************************************************************)
MAX_URLS == 200
CRAWL_DEPTH == 2

COMMON_CONTACT_PATHS ==
    << "/team", "/kontakt", "/contact", "/contatti", "/impressum",
       "/about", "/about-us", "/chi-siamo", "/ueber-uns",
       "/mitarbeiter", "/staff", "/people", "/equipe",
       "/praxisteam", "/aerzte", "/doctors", "/azienda",
       "/unternehmen", "/company" >>

Url(host, path) ==
    [scheme |-> "https", host |-> host, path |-> path, frag |-> FALSE, asset |-> FALSE]
WithFragment(u) == [u EXCEPT !.frag = TRUE]
AssetUrl(host, path) == [Url(host, path) EXCEPT !.asset = TRUE]
MailTo == [scheme |-> "mailto", host |-> "", path |-> "info@praxis.it",
           frag |-> FALSE, asset |-> FALSE]
BadHref == [scheme |-> "bad", host |-> "", path |-> "[bad", frag |-> FALSE, asset |-> FALSE]

\* str.lower() on the model's authorities
Lower(h) == IF h = "Praxis.IT" THEN "praxis.it" ELSE h

\* _normalize_url: None for an empty string and for mailto:/tel:, else the
\* URL without its fragment.
_normalize_url(u) ==
    IF u.scheme = "mailto" THEN None ELSE Some([u EXCEPT !.frag = FALSE])

\* _is_asset: the extension has to end the string, so a fragment hides it.
_is_asset(u) == u.asset /\ ~u.frag

\* _host: urlparse(url).netloc.lower(), "" when urlparse raises.
_host(u) == IF u.scheme = "bad" THEN "" ELSE Lower(u.host)

\* base_url.rstrip("/") + path
Join(base, path) == [base EXCEPT !.path = base.path \o path]

\* [x for x in s if Keep(x)], by halving the index range.
Filter(s, Keep(_)) ==
    LET F[lo \in 1..(Len(s) + 1), hi \in 0..Len(s)] ==
            IF lo > hi THEN <<>>
            ELSE IF lo = hi THEN (IF Keep(s[lo]) THEN <<s[lo]>> ELSE <<>>)
            ELSE F[lo, (lo + hi) \div 2] \o F[(lo + hi) \div 2 + 1, hi]
    IN F[1, Len(s)]

\* _extract_links: [raised, links]; every href is joined to the page URL and
\* normalised, mailto:/tel: links are dropped, a malformed href raises.
_extract_links(hrefs) ==
    IF \E k \in 1..Len(hrefs) : hrefs[k].scheme = "bad"
    THEN [raised |-> TRUE, links |-> <<>>]
    ELSE LET full == [k \in 1..Len(hrefs) |-> _normalize_url(hrefs[k])]
             Kept(u) == ~IsNone(u)
             kept == Filter(full, Kept)
         IN [raised |-> FALSE, links |-> [k \in 1..Len(kept) |-> The(kept[k])]]

\* A sitemap tier that cuts the list before it drops the assets.
_parse_sitemap_CapsFirst(sitemap) ==
    IF sitemap.kind # "ok" THEN <<>>
    ELSE LET NotAsset(u) == ~_is_asset(u)
         IN Filter(Take(sitemap.locs, MAX_URLS), NotAsset)

\* _parse_sitemap on what GET /sitemap.xml gave: a transport error, a status
\* >= 400, a body that does not parse, or the <loc> texts in document order.
_parse_sitemap(sitemap) ==
    IF sitemap.kind # "ok" THEN <<>>
    ELSE LET NotAsset(u) == ~_is_asset(u)
         IN Take(Filter(sitemap.locs, NotAsset), MAX_URLS)

\* _probe_common_paths: the paths whose HEAD answers below 400, in list order.
_probe_common_paths(base, responding) ==
    LET Responds(path) == path \in responding
        paths == Filter(COMMON_CONTACT_PATHS, Responds)
    IN [k \in 1..Len(paths) |-> Join(base, paths[k])]

\* Variants of the discovery steps: tiers that never end the discovery, a
\* crawl that follows every host, a crawl that forgets what it visited.
AfterTier_RunsAll(urls, next_tier) == next_tier
SkipForeign_Never(base_host, url) == FALSE
SkipSeen_Forgets(url, seen_urls) == IsNone(url)

\* _discover_urls, lines 165-167 and 171-175: a tier that found URLs ends
\* the discovery, an empty one hands over to the next tier.
AfterTier(urls, next_tier) == IF urls # <<>> THEN "done" ELSE next_tier

\* _crawl_site, line 341: `not url or url in seen`
SkipSeen(url, seen_urls) == IsNone(url) \/ The(url) \in seen_urls
\* line 345: `base_host and _host(url) != base_host`
SkipForeign(base_host, url) == base_host # "" /\ _host(url) # base_host
\* A crawl without the depth limit.
DepthReached_Never(depth) == FALSE
\* line 351: `if depth >= max_depth`, max_depth being CRAWL_DEPTH
DepthReached(depth) == depth >= CRAWL_DEPTH
\* line 338: `while queue and len(results) < limit`
LoopGoesOn(q, res, lim) == q # <<>> /\ Len(res) < lim

\* How many links beyond the crawl's ceiling the widest page of the model has.
Overshoot == 3

\* The sites of the model.
Home == Url("praxis.it", "")
Team == Url("praxis.it", "/team")
Kontakt == Url("praxis.it", "/kontakt")
Deep == Url("praxis.it", "/team/anna")
Deeper == Url("praxis.it", "/team/anna/cv")
TeamUpper == Url("Praxis.IT", "/team")
Imprint == Url("praxis.it", "/impressum")
Foreign == Url("facebook.com", "/praxis")
Flyer == AssetUrl("praxis.it", "/flyer.pdf")
\* "httpraxis.it": it starts with "http", so no scheme is put in front and
\* urlparse finds no authority; requests refuses to fetch such a URL.
Hostless == Url("", "httpraxis.it")

\* href lists of the pages that can be fetched (a URL that is no key here
\* answers with an error or a status >= 400).
LinkedPages ==
    (Home :> <<Team, WithFragment(Team), Foreign, MailTo, Flyer, Home, Kontakt>>)
    @@ (Team :> <<Deep, Home, TeamUpper, Kontakt>>)
    @@ (Kontakt :> <<Kontakt, WithFragment(Home), Team, Imprint>>)
    @@ (Deep :> <<Deeper>>)
    @@ (Deeper :> <<Home>>)
    @@ (Foreign :> <<Url("facebook.com", "/login")>>)
BrokenPages ==
    (Home :> <<Team, BadHref>>) @@ (Team :> <<Kontakt>>)
\* A home page with more links than the crawl's ceiling, two of the linked
\* pages linking back (cycles and self-links).
Numbered(k) == Url("praxis.it", "/p" \o ToString(k))
ManyLinks == MAX_URLS + Overshoot
WidePages ==
    (Home :> [k \in 1..ManyLinks |-> Numbered(k)] \o <<Home, Numbered(1)>>)
    @@ (Numbered(1) :> <<Home, Numbered(1), Numbered(2), Team>>)
    @@ (Numbered(2) :> <<Numbered(1), Numbered(ManyLinks)>>)
Graphs == {LinkedPages, BrokenPages, WidePages, <<>>}

\* More <loc> entries than the ceiling, assets among them.
WideSitemap ==
    <<Flyer>> \o [k \in 1..ManyLinks |-> Numbered(k)] \o <<Flyer, Team>>
Sitemaps ==
    { [kind |-> "error", locs |-> <<>>],
      [kind |-> "ok", locs |-> WideSitemap],
      [kind |-> "status", locs |-> <<>>],
      [kind |-> "unparsable", locs |-> <<>>],
      [kind |-> "ok", locs |-> <<>>],
      [kind |-> "ok", locs |-> <<Flyer>>],
      [kind |-> "ok", locs |-> <<Team, Flyer, Foreign, WithFragment(Kontakt)>>] }

Respondings == { {}, {"/kontakt", "/team"}, {"/company"} }

Bases == {Home, Url("Praxis.IT", ""), Hostless}

InitDiscover ==
    /\ \E base \in Bases, pages \in Graphs, sitemap \in Sitemaps,
          responding \in Respondings :
          site = [base |-> base,
                  pages |-> IF base = Hostless THEN <<>> ELSE pages,
                  sitemap |-> IF base = Hostless THEN [kind |-> "error", locs |-> <<>>]
                              ELSE sitemap,
                  responding |-> IF base = Hostless THEN {} ELSE responding]
    /\ limit = MAX_URLS
    /\ dpc = "sitemap"
    /\ tiers = <<>>
    /\ found_urls = <<>>
    /\ seen = {} /\ queue = <<>> /\ results = <<>> /\ fetched = <<>>
    /\ rdepth = <<>>
    /\ cache = <<>> /\ now = StartTime /\ ticks = 0 /\ faults = 0
    /\ IdleOrch /\ IdleCacheHist /\ IdleExtract
    /\ IdlePages /\ IdleBrowser /\ IdleSteps

\* Tier 1, lines 164-167
SitemapTier ==
    /\ dpc = "sitemap"
    /\ LET sitemap_urls == _parse_sitemap(site.sitemap) IN
       /\ tiers' = Append(tiers, [tier |-> "sitemap", urls |-> sitemap_urls])
       /\ dpc' = AfterTier(sitemap_urls, "common")
       /\ found_urls' = IF dpc' = "done" THEN sitemap_urls ELSE found_urls
    /\ UNCHANGED <<site, limit, seen, queue, results, fetched, rdepth>>
    /\ UNCHANGED <<cacheVars, orchVars, ops, extVars, pageVars, browVars, stepVars>>

\* Tier 2, lines 170-175
CommonPathTier ==
    /\ dpc = "common"
    /\ LET common_urls == _probe_common_paths(site.base, site.responding) IN
       /\ tiers' = Append(tiers, [tier |-> "common", urls |-> common_urls])
       /\ dpc' = AfterTier(common_urls, "crawl")
       /\ found_urls' = IF dpc' = "done" THEN common_urls ELSE found_urls
    /\ UNCHANGED <<site, limit, seen, queue, results, fetched, rdepth>>
    /\ UNCHANGED <<cacheVars, orchVars, ops, extVars, pageVars, browVars, stepVars>>

\* Tier 3, line 179 and lines 333-336: _crawl_site is entered.
CrawlStart ==
    /\ dpc = "crawl"
    /\ tiers' = Append(tiers, [tier |-> "crawl", urls |-> <<>>])
    /\ seen' = {}
    /\ queue' = <<[url |-> site.base, depth |-> 0]>>
    /\ results' = <<>>
    /\ rdepth' = <<>>
    /\ dpc' = "crawling"
    /\ UNCHANGED <<site, limit, found_urls, fetched>>
    /\ UNCHANGED <<cacheVars, orchVars, ops, extVars, pageVars, browVars, stepVars>>

\* The page a GET of `url` can return: its hrefs, when the URL is one of the
\* site's pages (the authority compared as DNS does, without case).
Canonical(u) == [u EXCEPT !.host = Lower(u.host)]
HasPage(u) == Canonical(u) \in DOMAIN site.pages

\* One iteration of the loop of lines 338-360. `ok` is whether the GET of
\* line 354 succeeds when the URL is one of the site's pages.
CrawlStep(ok) ==
    /\ dpc = "crawling"
    /\ LoopGoesOn(queue, results, limit)
    /\ LET head == Head(queue)
           url == _normalize_url(head.url)
           base_host == _host(site.base)
       IN IF SkipSeen(url, seen) \/ _is_asset(The(url)) \/ SkipForeign(base_host, The(url))
          THEN /\ queue' = Tail(queue)
               /\ ok = TRUE
               /\ UNCHANGED <<seen, results, rdepth, fetched, dpc>>
          ELSE /\ seen' = seen \cup {The(url)}
               /\ results' = Append(results, The(url))
               /\ rdepth' = Append(rdepth, head.depth)
               /\ IF DepthReached(head.depth)
                  THEN /\ queue' = Tail(queue)
                       /\ ok = TRUE
                       /\ UNCHANGED <<fetched, dpc>>
                  ELSE /\ fetched' = Append(fetched, The(url))
                       /\ IF ~(ok /\ HasPage(The(url)))
                          THEN /\ queue' = Tail(queue)
                               /\ UNCHANGED dpc
                          ELSE LET x == _extract_links(site.pages[Canonical(The(url))])
                                   Unseen(link) == link \notin seen'
                                   new == Filter(x.links, Unseen)
                               IN IF x.raised
                                  THEN /\ dpc' = "raised"
                                       /\ queue' = Tail(queue)
                                  ELSE /\ queue' = Tail(queue) \o
                                            [k \in 1..Len(new) |->
                                                [url |-> new[k], depth |-> head.depth + 1]]
                                       /\ UNCHANGED dpc
    /\ UNCHANGED <<site, limit, tiers, found_urls>>
    /\ UNCHANGED <<cacheVars, orchVars, ops, extVars, pageVars, browVars, stepVars>>

\* Line 362, and the return of _discover_urls.
CrawlReturn ==
    /\ dpc = "crawling"
    /\ ~LoopGoesOn(queue, results, limit)
    /\ found_urls' = results
    /\ tiers' = [tiers EXCEPT ![Len(tiers)].urls = results]
    /\ dpc' = "done"
    /\ UNCHANGED <<site, limit, seen, queue, results, fetched, rdepth>>
    /\ UNCHANGED <<cacheVars, orchVars, ops, extVars, pageVars, browVars, stepVars>>

NextDiscover ==
    \/ SitemapTier
    \/ CommonPathTier
    \/ CrawlStart
    \/ \E ok \in BOOLEAN : CrawlStep(ok)
    \/ CrawlReturn

SpecDiscover == InitDiscover /\ [][NextDiscover]_vars

(***************************************************************************)
(* Claims on URL discovery                                                 *)
(***************************************************************************)
TierOrder == <<"sitemap", "common", "crawl">>
NoDuplicates(s) == \A a, b \in 1..Len(s) : a # b => s[a] # s[b]
Elements(s) == {s[k] : k \in 1..Len(s)}

\* C7: the tiers run in the order sitemap, common-path, crawl; a tier runs
\* only when every tier before it yielded no URL; and what discovery returns
\* is the result of the last tier that ran, alone.
C7_TiersShortCircuit ==
    /\ Len(tiers) <= Len(TierOrder)
    /\ \A k \in 1..Len(tiers) : tiers[k].tier = TierOrder[k]
    /\ \A k \in 1..(Len(tiers) - 1) : tiers[k].urls = <<>>
    /\ dpc = "done" =>
          /\ found_urls = tiers[Len(tiers)].urls
          /\ Len(tiers) < Len(TierOrder) => found_urls # <<>>

\* C7 witness: discovery ended on the sitemap tier although common paths
\* answer and the site has pages to crawl.
C7_Witness ==
    /\ dpc = "done"
    /\ Len(tiers) = 1
    /\ found_urls # <<>>
    /\ site.responding # {}
    /\ site.pages = LinkedPages

\* C8: every URL in the crawl's result list, and so every URL the crawl tier
\* returns, has the host of the seed URL.
C8_CrawlStaysOnHost ==
    /\ \A k \in 1..Len(results) : _host(results[k]) = _host(site.base)
    /\ (dpc = "done" /\ Len(tiers) = Len(TierOrder)) =>
          \A k \in 1..Len(found_urls) : _host(found_urls[k]) = _host(site.base)

\* C8 witness: a crawl that fetched a page linking to another host and
\* returned several URLs, one of them with the host in another case.
C8_Witness ==
    /\ dpc = "done"
    /\ Len(tiers) = Len(TierOrder)
    /\ site.pages = LinkedPages
    /\ Home \in Elements(fetched)
    /\ Len(found_urls) >= 3
    /\ TeamUpper \in Elements(found_urls)

\* C9: in every state of the crawl the result list holds at most `limit`
\* URLs and no URL twice, it holds exactly the visited URLs, and no URL is
\* fetched twice.
C9_CrawlBounded ==
    /\ Len(results) <= limit
    /\ NoDuplicates(results)
    /\ Elements(results) = seen
    /\ NoDuplicates(fetched)
    /\ Elements(fetched) \subseteq seen

\* C9 witness: the crawl returned with the ceiling reached while the queue
\* still held URLs, one of them visited before (a cycle).
C9_Witness ==
    /\ dpc = "done"
    /\ Len(tiers) = Len(TierOrder)
    /\ Len(found_urls) = limit
    /\ \E k \in 1..Len(queue) : queue[k].url \in seen

\* C22: no URL that discovery returns has a fragment, whichever tier
\* (sitemap, common-path, crawl) produced it.
C22_NoFragmentReturned ==
    dpc = "done" => \A k \in 1..Len(found_urls) : ~found_urls[k].frag

\* The <loc> entries of the document and the number of non-asset entries
\* up to entry i.
Locs == site.sitemap.locs
Rank(i) == Cardinality({j \in 1..i : ~_is_asset(Locs[j])})
SitemapUrls == tiers[1].urls

LinksOf(u) ==
    IF HasPage(u) THEN _extract_links(site.pages[Canonical(u)]).links ELSE <<>>

\* The crawl's results are in non-decreasing depth order, the first being
\* the seed at depth 0; every other URL is a link of a fetched page one
\* level above it; no URL is deeper than CRAWL_DEPTH and no page at depth
\* CRAWL_DEPTH is fetched.
DepthOrder ==
    \A pages \in {Elements(fetched)} :
    \* linked[d + 1]: the links of the fetched pages of depth d
    \A linked \in {[d \in 1..CRAWL_DEPTH |->
                      UNION {Elements(LinksOf(results[j])) :
                                j \in {i \in 1..Len(results) :
                                          /\ rdepth[i] = d - 1
                                          /\ HasPage(results[i])
                                          /\ results[i] \in pages}}]} :
       /\ Len(rdepth) = Len(results)
       /\ \A k \in 1..Len(results) :
             /\ rdepth[k] \in 0..CRAWL_DEPTH
             /\ k > 1 => rdepth[k - 1] <= rdepth[k]
             /\ rdepth[k] = 0 => (k = 1 /\ Some(results[k]) = _normalize_url(site.base))
             /\ rdepth[k] > 0 => results[k] \in linked[rdepth[k]]
             /\ rdepth[k] >= CRAWL_DEPTH => results[k] \notin pages

\* A loop iteration whose GET fails: the page stays in the results, nothing
\* is added to the queue, and the loop goes on with the rest of the queue.
FailedFetchStopsBranch ==
    (CrawlStep(FALSE) /\ Len(fetched') > Len(fetched)) =>
        /\ queue' = Tail(queue)
        /\ dpc' = "crawling"
        /\ results' = Append(results, fetched'[Len(fetched')])

\* C24: the crawl is a breadth-first traversal from the base URL limited to
\* CRAWL_DEPTH hops: results in non-decreasing depth order, each reached
\* within CRAWL_DEPTH hops through fetched pages, no page at depth
\* CRAWL_DEPTH fetched, and a failing fetch ends its branch only.
C24_BreadthFirst == []DepthOrder /\ [][FailedFetchStopsBranch]_vars

\* A crawl that returned URLs of the depths 0, 1 and 2 from a site with a
\* page at depth 3, after the fetch of a depth-1 page failed whose links
\* were then not followed while a URL queued behind it was.
C24_Witness ==
    /\ dpc = "done"
    /\ Len(tiers) = Len(TierOrder)
    /\ site.pages = LinkedPages
    /\ {rdepth[k] : k \in 1..Len(rdepth)} = 0..CRAWL_DEPTH
    /\ Deep \in Elements(found_urls)
    /\ Deeper \notin Elements(found_urls)
    /\ Kontakt \in Elements(fetched)
    /\ Imprint \notin Elements(found_urls)

(***************************************************************************)
(* enrich_business on one business, for every oracle reply of the model    *)
(***************************************************************************)
MaxEntries == 3

ValidMail == <<"a", "@", "b", ".", "i", "t">>
PaddedMail == <<" ">> \o ValidMail \o <<" ">>
InvalidMail == <<"a", "@", "b">>

EntryPool ==
    { Entry(JStr("Anna Rossi"), JStr("Dr."), JChars(ValidMail), JStr("+39 1")),
      Entry(JStr("Bruno Bianchi"), JAbsent, JChars(InvalidMail), JAbsent),
      Entry(JStr("Carla Conti"), JStr(""), JChars(PaddedMail), JAbsent),
      Entry(JStr(""), JStr("Dr."), JChars(ValidMail), JAbsent),
      Entry(JStr("Dora Dorfer"), JStr("Dr."), JNull, JNull),
      Entry(JNum, JAbsent, JAbsent, JAbsent),
      NoDict }

EntryLists == UNION {[1..n -> EntryPool] : n \in 0..MaxEntries}

Replies ==
    {OracleError, OracleEmpty}
    \cup {OracleText(ReplyText(fence, "object", "list", items)) :
            fence \in {"none", "json", "tagged"}, items \in EntryLists}
    \cup {OracleText(ReplyText(fence, shape, contacts, <<>>)) :
            fence \in {"none", "plain", "tagged"}, shape \in {"object", "array", "prose"},
            contacts \in {"missing", "null"}}

ExtractEnvs ==
    {[pages |-> "some", reply |-> reply] : reply \in Replies}
    \cup {[pages |-> pages, reply |-> OracleError] : pages \in {"raise", "empty"}}

InitExtract ==
    /\ xbiz \in {Roster[1], Roster[4]}
    /\ xenv \in ExtractEnvs
    /\ xpc = "call"
    /\ xout = <<>>
    /\ cache = <<>> /\ now = StartTime /\ ticks = 0 /\ faults = 0
    /\ IdleOrch /\ IdleCacheHist /\ IdleDiscover
    /\ IdlePages /\ IdleBrowser /\ IdleSteps

\* enricher.enrich_business(biz): the Business is written in place.
EnrichOne ==
    /\ xpc = "call"
    /\ LET r == enrich_business(xbiz, xenv) IN
       /\ xbiz' = r.business
       /\ xpc' = IF r.raised THEN "raised" ELSE "returned"
       /\ xout' = IF r.raised THEN None ELSE Some(r.business)
    /\ UNCHANGED xenv
    /\ UNCHANGED <<cacheVars, orchVars, ops, discVars, pageVars, browVars, stepVars>>

NextExtract == EnrichOne

SpecExtract == InitExtract /\ [][NextExtract]_vars

\* The elements of the oracle's "contacts" array that name a person: dicts
\* whose name is a non-empty string.
HasName(c) == c.isdict /\ c.name.t = "str" /\ c.name.s # ""
OracleItems ==
    IF xenv.pages = "some" /\ xenv.reply.status = "ok" /\ ~IsNone(xenv.reply.content)
       /\ The(xenv.reply.content).shape = "object"
       /\ The(xenv.reply.content).contacts = "list"
    THEN The(xenv.reply.content).items
    ELSE <<>>
NamesOf(s) == [k \in 1..Len(s) |-> s[k].name]

\* C10: after enrich_business the Business holds at most 2 contact persons,
\* and they are the first 2 of the oracle's contacts that have a non-empty
\* name, in the oracle's order (fewer when there are fewer, none when there
\* is none), and the call did not raise for it.
C10_FirstTwoNamed ==
    (xpc # "call" /\ xbiz.website # "" /\ xenv.pages = "some") =>
        /\ xpc = "returned"
        /\ Len(xbiz.contact_persons) <= 2
        /\ NamesOf(xbiz.contact_persons) =
              Take([k \in 1..Len(Filter(OracleItems, HasName)) |->
                        Filter(OracleItems, HasName)[k].name.s], 2)

\* C11: the email of every contact person enrich_business leaves on the
\* Business is empty or matches the address pattern as it is stored.
C11_StoredEmailValid ==
    xpc = "returned" =>
        \A k \in 1..Len(xbiz.contact_persons) :
            \/ xbiz.contact_persons[k].email = <<>>
            \/ EmailReMatch(xbiz.contact_persons[k].email)

\* The candidate's e-mail is a string that fails the syntax rule.
EmailFails(c) == c.email.t = "str" /\ c.email.cs # <<>> /\ ~_is_valid_email(c.email.cs)
\* The number of named candidates among the first i.
NamedUpTo(i) == Cardinality({j \in 1..i : HasName(OracleItems[j])})
\* The contact is the candidate with its e-mail emptied.
KeptWithoutEmail(p, c) ==
    /\ p.name = c.name.s
    /\ p.email = <<>>
    /\ p.email_source = ""
    /\ p.title = GetOr(c.title).s
    /\ p.phone = GetOr(c.phone).s

\* C25: every contact person the call leaves on the Business has a
\* non-empty name, and a candidate with a non-empty name whose e-mail fails
\* the syntax rule is kept (when it is among the first 2 named candidates)
\* with an empty e-mail and its other fields as the oracle gave them.
C25_NamedAndEmailDropped ==
    (xpc # "call" /\ xbiz.website # "" /\ xenv.pages = "some") =>
        /\ \A k \in 1..Len(xbiz.contact_persons) : xbiz.contact_persons[k].name # ""
        /\ \A i \in 1..Len(OracleItems) :
              (HasName(OracleItems[i]) /\ EmailFails(OracleItems[i]) /\ NamedUpTo(i) <= 2) =>
                  /\ Len(xbiz.contact_persons) >= NamedUpTo(i)
                  /\ KeptWithoutEmail(xbiz.contact_persons[NamedUpTo(i)], OracleItems[i])

\* The reply without its fence.
Bare(reply) ==
    IF reply.status = "ok" /\ ~IsNone(reply.content)
    THEN OracleText([The(reply.content) EXCEPT !.fence = "none"])
    ELSE reply
\* The reply is JSON in a fenced code block.
FencedJson(reply) ==
    /\ reply.status = "ok" /\ ~IsNone(reply.content)
    /\ The(reply.content).fence # "none"
    /\ The(reply.content).shape \in {"object", "array"}

\* C17: for every outcome of the oracle call (error, no text, prose, fenced
\* JSON, JSON of another shape) enrich_business returns without raising;
\* fenced JSON leaves the contacts its unfenced text leaves, and an outcome
\* that is no JSON object with a contact list leaves the Business as it was.
C17_ToleratesReplies ==
    [][(xpc = "call" /\ xbiz.website # "" /\ xenv.pages = "some") =>
          /\ xpc' = "returned"
          /\ FencedJson(xenv.reply) =>
                xbiz' = enrich_business(xbiz, [xenv EXCEPT !.reply = Bare(@)]).business
          /\ OracleItems = <<>> => xbiz' = xbiz]_vars

(***************************************************************************)
(* website_scraper.py: fetch_contact_pages after the discovery, that is    *)
(* the selection of the pages (lines 110-130) and one _scrape_url call per *)
(* page (lines 132-150). A URL is searched for keywords in its text form.  *)
(* A page's text is modelled by its length and the length of the noise     *)
(* _clean_markdown strips from it.                                         *)
(***************************************************************************)
MAX_PAGES == 5
MIN_TEXT_LENGTH == 50
PageTextCap == 50000
\* The most noise _clean_markdown strips from a page of the model.
MaxNoise == 2

UpperCase == "ABCDEFGHIJKLMNOPQRSTUVWXYZ"
LowerCase == "abcdefghijklmnopqrstuvwxyz"
LowerOf ==
    [c \in {SubSeq(UpperCase, i, i) : i \in 1..Len(UpperCase)} |->
        LET i == CHOOSE j \in 1..Len(UpperCase) : SubSeq(UpperCase, j, j) = c
        IN SubSeq(LowerCase, i, i)]
LowerChar(c) == IF c \in DOMAIN LowerOf THEN LowerOf[c] ELSE c
RECURSIVE LowerStr(_)
LowerStr(str) ==
    IF Len(str) = 0 THEN ""
    ELSE LowerChar(SubSeq(str, 1, 1)) \o LowerStr(SubSeq(str, 2, Len(str)))

\* `sub in str`
Contains(str, sub) ==
    \E i \in 1..(Len(str) - Len(sub) + 1) : SubSeq(str, i, i + Len(sub) - 1) = sub

\* The URL as the string the code holds.
UrlText(u) ==
    u.scheme \o "://" \o u.host \o u.path \o (IF u.frag THEN "#top" ELSE "")

keywords ==
    << "kontakt", "contact", "contatti", "impressum", "team", "about",
       "chi-siamo", "about-us", "people", "staff", "mitarbeiter", "praxis",
       "equipe", "azienda", "unternehmen" >>

\* pattern.search(u) with re.I
KeywordMatch(u) ==
    LET text == LowerStr(UrlText(u)) IN
    \E k \in 1..Len(keywords) : Contains(text, keywords[k])

\* A keyword match without the cap.
_keyword_filter_urls_Uncapped(urls) == Filter(urls, KeywordMatch)

_keyword_filter_urls(urls) == Take(Filter(urls, KeywordMatch), MAX_PAGES)

\* The text of the URL-filter oracle's reply: a JSON array (its items are
\* strings, written as URLs, or numbers), a JSON object or prose, bare or in
\* a ``` fence with the tag json, without tag, or with another tag.
UrlItem(u) == [t |-> "str", u |-> u]
NumItem == [t |-> "num", u |-> Url("", "")]
UrlReplyText(fence, shape, items) == [fence |-> fence, shape |-> shape, items |-> items]

\* _parse_url_list: the first fenced part that starts with "[" replaces the
\* text; the strings of a JSON array are returned, [] for everything else.
_parse_url_list(response_text) ==
    LET text == IF response_text.fence \in {"json", "plain"} /\ response_text.shape = "array"
                THEN [response_text EXCEPT !.fence = "none"]
                ELSE response_text
        IsStr(item) == item.t = "str"
        strings == Filter(text.items, IsStr)
    IN IF text.fence = "none" /\ text.shape = "array"
       THEN [k \in 1..Len(strings) |-> strings[k].u]
       ELSE <<>>

\* _llm_filter_urls: [] when the call raises or the reply has no content.
_llm_filter_urls(reply) ==
    IF reply.status = "error" THEN <<>>
    ELSE IF IsNone(reply.content) THEN <<>>
    ELSE _parse_url_list(The(reply.content))

\* An append without the membership test.
AppendNew_Always(list, url) == Append(list, url)

\* Lines 122-124: `if url not in urls_to_scrape: urls_to_scrape.append(url)`
AppendNew(list, url) ==
    IF \E k \in 1..Len(list) : list[k] = url THEN list ELSE Append(list, url)
RECURSIVE AppendAllNew(_, _)
AppendAllNew(list, urls) ==
    IF Len(urls) = 0 THEN list
    ELSE AppendAllNew(AppendNew(list, urls[1]), Tail(urls))

\* Lines 113-115: the oracle's selection, or the keyword match when it is empty.
Selection(all_urls, reply) ==
    LET chosen == _llm_filter_urls(reply) IN
    IF chosen # <<>> THEN [by |-> "oracle", urls |-> chosen]
    ELSE [by |-> "keyword", urls |-> _keyword_filter_urls(all_urls)]

\* A threshold test that also renders a text of exactly the threshold.
NeedsRender_Inclusive(text) == text = 0 \/ text <= MIN_TEXT_LENGTH

\* Line 269: `not text or len(text) < MIN_TEXT_LENGTH`
NeedsRender(text) == text = 0 \/ text < MIN_TEXT_LENGTH

\* _html_to_text(html) if html else ""
TextOf(html) == IF IsNone(html) THEN 0 ELSE The(html).len

\* _scrape_url with the outcome `static` of _fetch_html and the outcome
\* `rendered` of _render_with_playwright (None, or [len, noise] for an html):
\* [renders, text] with text None or the length of the cleaned text.
_scrape_url(static, rendered) ==
    IF NeedsRender(TextOf(static))
    THEN LET html == IF IsNone(rendered) THEN static ELSE rendered IN
         IF TextOf(html) = 0 THEN [renders |-> 1, text |-> None]
         ELSE [renders |-> 1,
               text |-> Some(Min(The(html).len - The(html).noise, PageTextCap))]
    ELSE [renders |-> 0,
          text |-> Some(Min(The(static).len - The(static).noise, PageTextCap))]

\* Line 143: the page is kept when `text and len(text) > MIN_TEXT_LENGTH`.
PageKept(text) == ~IsNone(text) /\ The(text) > MIN_TEXT_LENGTH

\* _url_to_label on the URL's string: the part after the last "/" of the
\* string without trailing "/", cut at the first "?" or "#", with a "/" in
\* front; the URL itself when that part is empty.
_url_to_label(u) ==
    LET url == UrlText(u)
        Ch(str, i) == SubSeq(str, i, i)
        Last(S) == CHOOSE m \in S : \A j \in S : j <= m
        First(S) == CHOOSE m \in S : \A j \in S : m <= j
        solid == {i \in 1..Len(url) : Ch(url, i) # "/"}
        end == IF solid = {} THEN 0 ELSE Last(solid)
        slashes == {i \in 1..end : Ch(url, i) = "/"}
        part == SubSeq(url, IF slashes = {} THEN 1 ELSE Last(slashes) + 1, end)
        marks == {i \in 1..Len(part) : Ch(part, i) \in {"?", "#"}}
        path == IF marks = {} THEN part ELSE SubSeq(part, 1, First(marks) - 1)
    IN IF path # "" THEN "/" \o path ELSE url

\* results[label] = text: a new key goes to the end, a key the dict has
\* keeps its place and gets the new value.
DictSet(d, label, text) ==
    IF \E k \in 1..Len(d) : d[k].label = label
    THEN [k \in 1..Len(d) |-> IF d[k].label = label THEN [d[k] EXCEPT !.text = text]
                                                   ELSE d[k]]
    ELSE Append(d, [label |-> label, text |-> text])

\* The sites and oracle replies of the model.
Studio == Url("studio-rossi.it", "")
SKontakt == Url("studio-rossi.it", "/Kontakt")
STeam == Url("studio-rossi.it", "/team")
SImpressum == Url("studio-rossi.it", "/impressum")
SAbout == Url("studio-rossi.it", "/about-us")
SStaff == Url("studio-rossi.it", "/staff")
SPeople == Url("studio-rossi.it", "/people")
SPreise == Url("studio-rossi.it", "/preise")
SLeistungen == Url("studio-rossi.it", "/leistungen")
SAboutTeam == Url("studio-rossi.it", "/about/team")

CandidateLists ==
    { <<>>,
      <<Studio, SKontakt, STeam>>,
      <<SLeistungen, SPreise>>,
      <<STeam, SLeistungen, STeam, WithFragment(SKontakt), SAboutTeam>>,
      <<SKontakt, SLeistungen, STeam, SImpressum, SAbout, SStaff, SPeople, SPreise>> }

\* The candidates of a site whose host holds a keyword.
PraxisCandidates == <<Url("praxis.it", "/preise"), Deep, Flyer>>

UrlReplies ==
    { OracleError, OracleEmpty,
      OracleText(UrlReplyText("none", "prose", <<>>)),
      OracleText(UrlReplyText("none", "object", <<>>)),
      OracleText(UrlReplyText("none", "array", <<>>)),
      OracleText(UrlReplyText("none", "array", <<NumItem, NumItem>>)),
      OracleText(UrlReplyText("none", "array",
                   <<UrlItem(STeam), NumItem, UrlItem(STeam), UrlItem(Studio),
                     UrlItem(SPreise), UrlItem(SKontakt), UrlItem(SImpressum),
                     UrlItem(SAbout)>>)),
      OracleText(UrlReplyText("json", "array", <<UrlItem(SLeistungen)>>)),
      OracleText(UrlReplyText("plain", "array",
                   <<UrlItem(SPreise), UrlItem(SKontakt), UrlItem(STeam),
                     UrlItem(SImpressum), UrlItem(SAbout), UrlItem(SStaff)>>)),
      OracleText(UrlReplyText("tagged", "array", <<UrlItem(SPreise)>>)),
      OracleText(UrlReplyText("json", "object", <<>>)) }

\* What a GET of a page and a render of it can give: None, or an html with
\* the length of its text and of the noise in it.
Html(len, noise) == Some([len |-> len, noise |-> noise])
\* The outcomes of one _scrape_url call: <<static, rendered>>.
PageOutcomes ==
    { <<None, None>>,
      <<Html(MIN_TEXT_LENGTH - 1, 0), Html(MIN_TEXT_LENGTH + 1, 0)>>,
      <<Html(MIN_TEXT_LENGTH, 0), None>>,
      <<Html(MIN_TEXT_LENGTH + MaxNoise, MaxNoise), None>> }

InitPages ==
    /\ \E candidates \in CandidateLists \cup {PraxisCandidates}, reply \in UrlReplies :
          fin = [base |-> IF candidates = PraxisCandidates THEN Home ELSE Studio,
                 all_urls |-> candidates, reply |-> reply]
    /\ fpc = "select"
    /\ relevant = <<>>
    /\ urls_to_scrape = <<>>
    /\ scrapes = <<>>
    /\ page_map = <<>>
    /\ cache = <<>> /\ now = StartTime /\ ticks = 0 /\ faults = 0
    /\ IdleOrch /\ IdleCacheHist /\ IdleDiscover /\ IdleExtract /\ IdleBrowser /\ IdleSteps

\* Lines 110-130: the list of pages to fetch.
SelectPages ==
    /\ fpc = "select"
    /\ LET chosen == IF fin.all_urls # <<>>
                     THEN Selection(fin.all_urls, fin.reply)
                     ELSE [by |-> "none", urls |-> <<>>]
       IN /\ relevant' = chosen
          /\ urls_to_scrape' = Take(AppendAllNew(<<fin.base>>, chosen.urls), MAX_PAGES)
    /\ fpc' = "scrape"
    /\ UNCHANGED <<fin, scrapes, page_map>>
    /\ UNCHANGED <<cacheVars, orchVars, ops, discVars, extVars, browVars, stepVars>>

\* Lines 135-150, one iteration: _scrape_url on the next page of the list.
ScrapeNext(static, rendered) ==
    /\ fpc = "scrape"
    /\ Len(scrapes) < Len(urls_to_scrape)
    /\ LET url == urls_to_scrape[Len(scrapes) + 1]
           r == _scrape_url(static, rendered)
       IN /\ scrapes' = Append(scrapes,
                           [url |-> url, static |-> static, renders |-> r.renders,
                            text |-> r.text, kept |-> PageKept(r.text)])
          /\ page_map' =
                IF PageKept(r.text)
                THEN DictSet(page_map,
                             IF url = fin.base THEN "homepage" ELSE _url_to_label(url),
                             [page |-> url, len |-> The(r.text)])
                ELSE page_map
    /\ UNCHANGED <<fpc, fin, relevant, urls_to_scrape>>
    /\ UNCHANGED <<cacheVars, orchVars, ops, discVars, extVars, browVars, stepVars>>

\* Line 159: the pages are returned.
ReturnPages ==
    /\ fpc = "scrape"
    /\ Len(scrapes) = Len(urls_to_scrape)
    /\ fpc' = "done"
    /\ UNCHANGED <<fin, relevant, urls_to_scrape, scrapes, page_map>>
    /\ UNCHANGED <<cacheVars, orchVars, ops, discVars, extVars, browVars, stepVars>>

NextPages ==
    \/ SelectPages
    \/ \E outcome \in PageOutcomes : ScrapeNext(outcome[1], outcome[2])
    \/ ReturnPages

SpecPages == InitPages /\ [][NextPages]_vars

(***************************************************************************)
(* Claims on fetch_contact_pages                                           *)
(***************************************************************************)
\* C28: every page selected for fetching is the homepage or one of the
\* candidate URLs the discovery produced; a URL of the oracle's reply that
\* is no candidate is not fetched.
C28_OnlyCandidatesFetched ==
    /\ \A k \in 1..Len(urls_to_scrape) :
          urls_to_scrape[k] = fin.base \/ urls_to_scrape[k] \in Elements(fin.all_urls)
    /\ \A k \in 1..Len(scrapes) :
          scrapes[k].url = fin.base \/ scrapes[k].url \in Elements(fin.all_urls)

\* C30: the page map fetch_contact_pages returns has one entry per fetched
\* page whose cleaned text is longer than MIN_TEXT_LENGTH, and the entry of
\* such a page holds the text of that page.
C30_EveryKeptPageReturned ==
    fpc = "done" =>
        /\ Len(page_map) = Cardinality({k \in 1..Len(scrapes) : scrapes[k].kept})
        /\ \A k \in 1..Len(scrapes) :
              scrapes[k].kept =>
                  \E j \in 1..Len(page_map) :
                      page_map[j].text = [page |-> scrapes[k].url,
                                          len |-> The(scrapes[k].text)]

\* C12: once selected, the list of pages to fetch starts with the base URL,
\* holds no URL twice and at most MAX_PAGES URLs, and the pages scraped are
\* the pages of the list, in its order.
C12_HomepageFirstNoDuplicates ==
    fpc # "select" =>
        /\ Len(urls_to_scrape) >= 1
        /\ urls_to_scrape[1] = fin.base
        /\ NoDuplicates(urls_to_scrape)
        /\ Len(urls_to_scrape) <= 5
        /\ Len(scrapes) <= Len(urls_to_scrape)
        /\ \A k \in 1..Len(scrapes) : scrapes[k].url = urls_to_scrape[k]

\* C12 witness: all pages were fetched of a list that was cut to the cap,
\* from a selection that names a URL twice and the base URL itself.
C12_Witness ==
    /\ fpc = "done"
    /\ Len(urls_to_scrape) = 5
    /\ Len(relevant.urls) >= 5
    /\ ~NoDuplicates(relevant.urls)
    /\ fin.base \in Elements(relevant.urls)

\* The strings of the array the oracle returned: of a reply that is a JSON
\* array, bare or in a fence without tag or with the tag json.
UrlArray ==
    LET reply == fin.reply
        IsStr(item) == item.t = "str"
    IN IF reply.status = "ok" /\ ~IsNone(reply.content)
          /\ The(reply.content).shape = "array"
          /\ The(reply.content).fence \in {"none", "json", "plain"}
       THEN LET strings == Filter(The(reply.content).items, IsStr)
            IN [k \in 1..Len(strings) |-> strings[k].u]
       ELSE <<>>
HasTerm(u) ==
    LET text == LowerStr(UrlText(u)) IN
    \E term \in Elements(keywords) : Contains(text, term)
MatchingCandidates == Filter(fin.all_urls, HasTerm)

\* C13: with candidates, when the oracle gave no URL array (error, no or
\* unparseable content, empty array) the selection is the candidates that
\* contain a keyword, in candidate order, cut to 5; when it gave URLs the
\* selection is the oracle's array and the keyword match is not used.
C13_KeywordFallback ==
    (fpc # "select" /\ fin.all_urls # <<>>) =>
        IF UrlArray = <<>>
        THEN /\ relevant.by = "keyword"
             /\ relevant.urls = Take(MatchingCandidates, 5)
        ELSE /\ relevant.by = "oracle"
             /\ relevant.urls = UrlArray

\* C13 witness: the oracle call erred and more than 5 candidates match.
C13_Witness ==
    /\ fpc = "done"
    /\ fin.reply = OracleError
    /\ relevant.by = "keyword"
    /\ Len(MatchingCandidates) > 5
    /\ Len(MatchingCandidates) < Len(fin.all_urls)

\* C20: a page is rendered at most once, only when its static fetch gave no
\* text or a text shorter than 50 characters; a page whose static text has 50
\* characters or more is not rendered.
C20_RenderOnlyWhenShort ==
    /\ \A k \in 1..Len(scrapes) :
          /\ scrapes[k].renders <= 1
          /\ scrapes[k].renders = 1 =>
                (IsNone(scrapes[k].static) \/ The(scrapes[k].static).len < 50)
          /\ (~IsNone(scrapes[k].static) /\ The(scrapes[k].static).len >= 50) =>
                scrapes[k].renders = 0
    /\ \A j, k \in 1..Len(scrapes) :
          (j # k /\ scrapes[j].url = scrapes[k].url) =>
              scrapes[j].renders + scrapes[k].renders <= 1

\* C20 witness: one page with 49 characters was rendered, one with exactly 50
\* was not, one without a static answer was rendered.
C20_Witness ==
    /\ fpc = "done"
    /\ \E i, j, k \in 1..Len(scrapes) :
          /\ scrapes[i].static = Html(49, 0) /\ scrapes[i].renders = 1
          /\ scrapes[i].kept
          /\ scrapes[j].static = Html(50, 0) /\ scrapes[j].renders = 0
          /\ IsNone(scrapes[k].static) /\ scrapes[k].renders = 1

\* The static text of the k-th page scraped is too short for the page to be
\* kept: its length is not greater than MIN_TEXT_LENGTH.
StaticTooShort(k) ==
    /\ ~IsNone(scrapes[k].static)
    /\ The(scrapes[k].static).len <= MIN_TEXT_LENGTH

\* C32: every fetched page whose static text is too short to be kept has had
\* its render tried, so that no page is dropped for insufficient text without
\* a render attempt.
C32_ShortPageRendered ==
    \A k \in 1..Len(scrapes) : StaticTooShort(k) => scrapes[k].renders = 1

(***************************************************************************)
(* website_scraper.py: the Playwright session of one WebsiteScraper, the   *)
(* one of enrichers[0], during a run of the pool and the close() after it. *)
(* The tasks with idx % MAX_WORKERS = 0 call _render_with_playwright on    *)
(* it; the other tasks only occupy pool threads. A driver is a started     *)
(* sync_playwright(), a browser a launched chromium; a browser dies with   *)
(* its driver.                                                             *)
(***************************************************************************)
\* Render calls one task makes at most.
MaxRenders == 2

PoolBatch == MAX_WORKERS + 1
Tasks == DOMAIN tpc
UsesScraper(i) == EnricherOf(i) = 0
InPool == {i \in Tasks : tpc[i] \notin {"queued", "done"}}

InitBrowser ==
    /\ \E n \in {1, PoolBatch} :
          /\ tpc = [i \in 0..(n - 1) |-> IF i < MAX_WORKERS THEN "running" ELSE "queued"]
          /\ tcalls = [i \in 0..(n - 1) |-> IF UsesScraper(i) THEN MaxRenders ELSE 0]
    /\ _playwright = None
    /\ _browser = None
    /\ drivers = {}
    /\ browsers = {}
    /\ started = 0
    /\ bmain = "pool"
    /\ cache = <<>> /\ now = StartTime /\ ticks = 0 /\ faults = 0
    /\ IdleOrch /\ IdleCacheHist /\ IdleDiscover /\ IdleExtract /\ IdlePages /\ IdleSteps

\* A pool thread that is free takes the next submitted task.
StartTask(i) ==
    /\ tpc[i] = "queued"
    /\ \A j \in Tasks : j < i => tpc[j] # "queued"
    /\ Cardinality(InPool) < MAX_WORKERS
    /\ tpc' = [tpc EXCEPT ![i] = "running"]
    /\ UNCHANGED <<tcalls, _playwright, _browser, drivers, browsers, started, bmain>>
    /\ UNCHANGED <<cacheVars, orchVars, ops, discVars, extVars, pageVars, stepVars>>

\* _enrich_worker returns, with a result or from its except clause.
FinishTask(i) ==
    /\ tpc[i] = "running"
    /\ tpc' = [tpc EXCEPT ![i] = "done"]
    /\ UNCHANGED <<tcalls, _playwright, _browser, drivers, browsers, started, bmain>>
    /\ UNCHANGED <<cacheVars, orchVars, ops, discVars, extVars, pageVars, stepVars>>

\* _render_with_playwright is called; _get_browser, lines 301-306: the test
\* of self._browser and the import of playwright.
GetBrowser(i, importable) ==
    /\ tpc[i] = "running"
    /\ UsesScraper(i)
    /\ tcalls[i] > 0
    /\ tcalls' = [tcalls EXCEPT ![i] = @ - 1]
    /\ IF ~IsNone(_browser)
       THEN importable /\ tpc' = [tpc EXCEPT ![i] = "render"]
       ELSE IF importable
            THEN tpc' = [tpc EXCEPT ![i] = "start"]
            ELSE tpc' = [tpc EXCEPT ![i] = "running"]
    /\ UNCHANGED <<_playwright, _browser, drivers, browsers, started, bmain>>
    /\ UNCHANGED <<cacheVars, orchVars, ops, discVars, extVars, pageVars, stepVars>>

\* Line 308: self._playwright = sync_playwright().start()
StartDriver(i, ok) ==
    /\ tpc[i] = "start"
    /\ IF ok
       THEN /\ started' = started + 1
            /\ drivers' = drivers \cup {started + 1}
            /\ _playwright' = Some(started + 1)
            /\ tpc' = [tpc EXCEPT ![i] = "launch"]
       ELSE /\ _playwright' = None
            /\ tpc' = [tpc EXCEPT ![i] = "running"]
            /\ UNCHANGED <<started, drivers>>
    /\ UNCHANGED <<tcalls, _browser, browsers, bmain>>
    /\ UNCHANGED <<cacheVars, orchVars, ops, discVars, extVars, pageVars, stepVars>>

\* Line 309: self._browser = self._playwright.chromium.launch(); lines
\* 310-313 when it raises.
LaunchBrowser(i, ok) ==
    /\ tpc[i] = "launch"
    /\ IF ok /\ ~IsNone(_playwright)
       THEN /\ started' = started + 1
            /\ browsers' = browsers \cup {[id |-> started + 1, driver |-> The(_playwright)]}
            /\ _browser' = Some(started + 1)
            /\ tpc' = [tpc EXCEPT ![i] = "render"]
            /\ UNCHANGED _playwright
       ELSE /\ _playwright' = None
            /\ tpc' = [tpc EXCEPT ![i] = "running"]
            /\ UNCHANGED <<started, browsers, _browser>>
    /\ UNCHANGED <<tcalls, drivers, bmain>>
    /\ UNCHANGED <<cacheVars, orchVars, ops, discVars, extVars, pageVars, stepVars>>

\* Lines 320-330: the page is opened, navigated and closed; the html or None
\* is returned.
RenderPage(i) ==
    /\ tpc[i] = "render"
    /\ tpc' = [tpc EXCEPT ![i] = "running"]
    /\ UNCHANGED <<tcalls, _playwright, _browser, drivers, browsers, started, bmain>>
    /\ UNCHANGED <<cacheVars, orchVars, ops, discVars, extVars, pageVars, stepVars>>

\* app.py 131-132 after the pool; close(), lines 76-81. `ok` is whether
\* browser.close() returns (the except clause swallows its exception).
CloseBrowser(ok) ==
    /\ bmain = "pool"
    /\ \A i \in Tasks : tpc[i] = "done"
    /\ IF ~IsNone(_browser)
       THEN /\ browsers' = IF ok THEN {b \in browsers : b.id # The(_browser)} ELSE browsers
            /\ _browser' = None
       ELSE /\ ok
            /\ UNCHANGED <<browsers, _browser>>
    /\ bmain' = "closing"
    /\ UNCHANGED <<tpc, tcalls, _playwright, drivers, started>>
    /\ UNCHANGED <<cacheVars, orchVars, ops, discVars, extVars, pageVars, stepVars>>

\* close(), lines 82-87. `ok` is whether playwright.stop() returns.
StopDriver(ok) ==
    /\ bmain = "closing"
    /\ IF ~IsNone(_playwright)
       THEN /\ drivers' = IF ok THEN drivers \ {The(_playwright)} ELSE drivers
            /\ browsers' = IF ok THEN {b \in browsers : b.driver # The(_playwright)}
                           ELSE browsers
            /\ _playwright' = None
       ELSE /\ ok
            /\ UNCHANGED <<drivers, browsers, _playwright>>
    /\ bmain' = "ended"
    /\ UNCHANGED <<tpc, tcalls, _browser, started>>
    /\ UNCHANGED <<cacheVars, orchVars, ops, discVars, extVars, pageVars, stepVars>>

NextBrowser ==
    \/ \E i \in Tasks : StartTask(i)
    \/ \E i \in Tasks : FinishTask(i)
    \/ \E i \in Tasks, importable \in BOOLEAN : GetBrowser(i, importable)
    \/ \E i \in Tasks, ok \in BOOLEAN : StartDriver(i, ok)
    \/ \E i \in Tasks, ok \in BOOLEAN : LaunchBrowser(i, ok)
    \/ \E i \in Tasks : RenderPage(i)
    \/ \E ok \in BOOLEAN : CloseBrowser(ok)
    \/ \E ok \in BOOLEAN : StopDriver(ok)

SpecBrowser == InitBrowser /\ [][NextBrowser]_vars

\* C14: when the batch has ended and close() has run, no driver and no
\* browser that the scraper started is still running.
C14_SessionReleased ==
    bmain = "ended" => (drivers = {} /\ browsers = {})

\* C19: the scraper never has two open browsers.
C19_OneLiveBrowser == Cardinality(browsers) <= 1

(***************************************************************************)
(* Further claims on the enrichment run                                    *)
(***************************************************************************)
\* C15: when the run has ended, the output record at every index has the
\* non-contact fields of the input record at that index.
C15_OnlyContactsChange ==
    main = "finished" =>
        \A i \in Indices :
            /\ ~IsNone(enriched[i])
            /\ NonContact(The(enriched[i])) = NonContact(input[i])

\* The step in which task i leaves enrich_business and returns.
PipelineReturns(i) == pc[i] = "enriching" /\ pc'[i] = "done"
\* A lookup of business b now, without storage-layer error.
LookupNext(b) == get_cached_enrichment(cache', now', b.name, b.website, FALSE).value

\* C16 as stated: when the pipeline of a task returns without raising, a
\* lookup of its business right after the worker's return gives the result;
\* when it raises, the cache is left as it was.
C16_Original ==
    [][\A i \in Indices :
          PipelineReturns(i) =>
              IF hist'[i].raised THEN cache' = cache
              ELSE LookupNext(The(ret'[i]).biz) = Some(The(ret'[i]).biz)]_vars

\* C16 (amended): the same, for a pipeline whose cache write meets no
\* storage-layer error.
C16_WriteThrough ==
    [][\A i \in Indices :
          PipelineReturns(i) =>
              IF hist'[i].raised THEN cache' = cache
              ELSE ~hist'[i].wfault =>
                      LookupNext(The(ret'[i]).biz) = Some(The(ret'[i]).biz)]_vars

\* C16 witness: one task returned an enriched business whose row is in the
\* cache with the time of the write, and another task's pipeline raised.
C16_Witness ==
    \E i, j \in Indices :
        /\ Returned(i) /\ "set" \in hist[i].steps /\ ~hist[i].wfault
        /\ hist[i].row = "absent"
        /\ The(ret[i]).biz.contact_persons # <<>>
        /\ SelectRow(cache, EnrichmentKey(input[i].name, input[i].website))
              = Some([value |-> BusinessToJson(The(ret[i]).biz), created_at |-> now])
        /\ Returned(j) /\ hist[j].raised

\* C18: under fair scheduling, with every call returning, the run ends with
\* every task collected: the main thread leaves the pool, done_count is the
\* number of submitted tasks and every output slot holds a Business, whatever
\* pipelines raised and whatever storage errors occurred.
C18_AllCollected ==
    <>(/\ main = "finished"
       /\ done_count = Cardinality(Indices)
       /\ \A i \in Indices : pc[i] = "collected" /\ ~IsNone(enriched[i]))

\* A finished run of several tasks in which a pipeline raised and a storage
\* error occurred.
C18_Witness ==
    /\ main = "finished"
    /\ Cardinality(Indices) > 1
    /\ done_count = Cardinality(Indices)
    /\ \E i \in Indices : hist[i].raised
    /\ \E i \in Indices : hist[i].rfault \/ hist[i].wfault

\* The outcome of enrich_business's I/O in which every fetch failed:
\* fetch_contact_pages returns no page and no oracle answer is used.
NoPages == [pages |-> "empty", reply |-> OracleError]

\* C31: when the pipeline of a business that has a website obtained no page
\* and its cache write met no storage-layer error, a lookup of the business
\* right after the worker's return finds nothing, so that a later run within
\* the TTL runs the pipeline for it again.
C31_EmptyResultNotCached ==
    [][\A i \in Indices :
          (/\ PipelineReturns(i)
           /\ businesses[i].website # ""
           /\ EnrichAndStore(i, NoPages, FALSE))
              => IsNone(LookupNext(businesses[i]))]_vars

(***************************************************************************)
(* contact_enricher.py: enrich_business statement by statement, with the   *)
(* oracle calls and the delay it makes (fetch_contact_pages included) and  *)
(* the prompt text _combine_pages builds. A page text is its length.       *)
(***************************************************************************)
MAX_TEXT_PER_REQUEST == 15000

\* text[:remaining] without the cut.
Cut_Whole(len, remaining) == len

\* len(text[:remaining])
Cut(len, remaining) == Min(len, remaining)

RECURSIVE CombineFrom(_, _, _)
\* The loop of _combine_pages from the page at the head of `pages` on, with
\* total_len and the parts built so far; it breaks when nothing remains.
CombineFrom(pages, total_len, parts) ==
    IF pages = <<>> THEN parts
    ELSE LET remaining == MAX_TEXT_PER_REQUEST - total_len IN
         IF remaining <= 0 THEN parts
         ELSE LET chunk == Cut(pages[1].len, remaining) IN
              CombineFrom(Tail(pages), total_len + chunk,
                          Append(parts, [label |-> pages[1].label, len |-> chunk]))

\* _combine_pages(pages): the parts in order, [label, len] each.
_combine_pages(pages) == CombineFrom(pages, 0, <<>>)

\* The lengths of the page texts fetch_contact_pages returns: longer than
\* MIN_TEXT_LENGTH, at most the cap of _scrape_url.
PageLengths == {MIN_TEXT_LENGTH + 1, MAX_TEXT_PER_REQUEST \div 2,
                MAX_TEXT_PER_REQUEST, PageTextCap}
\* The page maps: up to MAX_PAGES entries in fetch order, labelled by position.
PageMaps ==
    UNION {{[k \in 1..n |-> [label |-> k, len |-> f[k]]] : f \in [1..n -> PageLengths]} :
              n \in 0..MAX_PAGES}

\* The I/O of one call: the website, whether the discovery found URLs,
\* whether an exception leaves fetch_contact_pages (before or after the URL
\* filter), and the page map it returns.
InitSteps ==
    /\ epc = "call"
    /\ ein \in [website : {"", "rossi.it"}, all_urls : BOOLEAN,
                fails : {"no", "discover", "scrape"}, pages : PageMaps]
    /\ ein.website = "" => (~ein.all_urls /\ ein.fails = "no" /\ ein.pages = <<>>)
    /\ ein.fails # "no" => ein.pages = <<>>
    /\ elog = <<>>
    /\ eparts = <<>>
    /\ cache = <<>> /\ now = StartTime /\ ticks = 0 /\ faults = 0
    /\ IdleOrch /\ IdleCacheHist /\ IdleDiscover /\ IdleExtract
    /\ IdlePages /\ IdleBrowser

\* Lines 66-68: a business without website is returned at once.
EnterEnrich ==
    /\ epc = "call"
    /\ IF ein.website = ""
       THEN epc' = "returned" /\ elog' = Append(elog, "return")
       ELSE epc' = "discover" /\ elog' = elog
    /\ UNCHANGED <<ein, eparts>>
    /\ UNCHANGED <<cacheVars, orchVars, ops, discVars, extVars, pageVars, browVars>>

\* fetch_contact_pages, lines 106-130: the discovery, then the URL-filter
\* oracle call when the discovery found URLs.
DiscoverAndFilter ==
    /\ epc = "discover"
    /\ IF ein.fails = "discover"
       THEN epc' = "raised" /\ elog' = Append(elog, "raise")
       ELSE /\ epc' = "scrape"
            /\ elog' = IF ein.all_urls THEN Append(elog, "url_filter") ELSE elog
    /\ UNCHANGED <<ein, eparts>>
    /\ UNCHANGED <<cacheVars, orchVars, ops, discVars, extVars, pageVars, browVars>>

\* fetch_contact_pages, lines 132-159, and the return of lines 74-76 when
\* no page came back.
ScrapePages ==
    /\ epc = "scrape"
    /\ IF ein.fails = "scrape"
       THEN epc' = "raised" /\ elog' = Append(elog, "raise")
       ELSE IF ein.pages = <<>>
       THEN epc' = "returned" /\ elog' = Append(elog, "return")
       ELSE epc' = "combine" /\ elog' = elog
    /\ UNCHANGED <<ein, eparts>>
    /\ UNCHANGED <<cacheVars, orchVars, ops, discVars, extVars, pageVars, browVars>>

\* Line 79: combined_text = self._combine_pages(pages)
CombinePages ==
    /\ epc = "combine"
    /\ eparts' = _combine_pages(ein.pages)
    /\ epc' = "extract"
    /\ UNCHANGED <<ein, elog>>
    /\ UNCHANGED <<cacheVars, orchVars, ops, discVars, extVars, pageVars, browVars>>

\* Lines 82-96: the contact-extraction oracle call (_extract_contacts returns
\* in every outcome of the call) and the assignment of the contacts.
ExtractContacts ==
    /\ epc = "extract"
    /\ elog' = Append(elog, "extract")
    /\ epc' = "pace"
    /\ UNCHANGED <<ein, eparts>>
    /\ UNCHANGED <<cacheVars, orchVars, ops, discVars, extVars, pageVars, browVars>>

\* Line 99: time.sleep(1.5)
Pace ==
    /\ epc = "pace"
    /\ elog' = Append(elog, "sleep")
    /\ epc' = "return"
    /\ UNCHANGED <<ein, eparts>>
    /\ UNCHANGED <<cacheVars, orchVars, ops, discVars, extVars, pageVars, browVars>>

\* Line 101: return business
ReturnBusiness ==
    /\ epc = "return"
    /\ elog' = Append(elog, "return")
    /\ epc' = "returned"
    /\ UNCHANGED <<ein, eparts>>
    /\ UNCHANGED <<cacheVars, orchVars, ops, discVars, extVars, pageVars, browVars>>

NextSteps ==
    \/ EnterEnrich
    \/ DiscoverAndFilter
    \/ ScrapePages
    \/ CombinePages
    \/ ExtractContacts
    \/ Pace
    \/ ReturnBusiness

SpecSteps == InitSteps /\ [][NextSteps]_vars

OracleCalls == {"url_filter", "extract"}

\* C21: every oracle call of the worker (URL filter, contact extraction) is
\* followed by the delay before the worker's next oracle call and before
\* the business goes back to the caller, by return or by exception.
C21_DelayAfterOracleCall ==
    \A k \in 1..Len(elog) :
        (elog[k] \in OracleCalls /\ k < Len(elog)) => elog[k + 1] = "sleep"

Sum(parts) == LET S[k \in 0..Len(parts)] == IF k = 0 THEN 0 ELSE S[k - 1] + parts[k].len
              IN S[Len(parts)]

\* C26: the parts of the prompt total at most MAX_TEXT_PER_REQUEST
\* characters; part k is page k (fetch order) cut to what the pages before
\* it left of the budget; the pages after the one that uses the budget up
\* are not added, and no page before it is left out.
C26_PromptWithinBudget ==
    epc \in {"extract", "pace", "return", "returned"} /\ eparts # <<>> =>
        /\ Sum(eparts) <= MAX_TEXT_PER_REQUEST
        /\ Len(eparts) <= Len(ein.pages)
        /\ \A k \in 1..Len(eparts) :
              /\ eparts[k].label = ein.pages[k].label
              /\ eparts[k].len =
                    Min(ein.pages[k].len,
                        MAX_TEXT_PER_REQUEST - Sum(SubSeq(eparts, 1, k - 1)))
              /\ eparts[k].len > 0
        /\ Len(eparts) < Len(ein.pages) => Sum(eparts) = MAX_TEXT_PER_REQUEST

\* A prompt of several pages whose last part was cut and whose later pages
\* were left out.
C26_Witness ==
    /\ epc = "returned"
    /\ Len(eparts) > 1
    /\ Len(eparts) < Len(ein.pages)
    /\ eparts[Len(eparts)].len < ein.pages[Len(eparts)].len
    /\ Sum(eparts) = MAX_TEXT_PER_REQUEST

\* C27: every fetched page has a non-empty part of its text in the prompt,
\* whatever the lengths of the pages before it.
C27_NoPageStarved ==
    epc \in {"extract", "pace", "return", "returned"} /\ ein.pages # <<>> =>
        \A k \in 1..Len(ein.pages) :
            \E j \in 1..Len(eparts) :
                eparts[j].label = ein.pages[k].label /\ eparts[j].len > 0

==============================================================================
